---- MODULE Spec2Model ----
(***************************************************************************)
(* TraceMem ingestion engine: add_message / import_trace over the Kuzu     *)
(* graph store and the LanceDB vector store.                               *)
(*                                                                         *)
(* The graph is modelled table by table, as initialize_schema declares it: *)
(* node tables UserText, AgentText, ResourceVersion, Resource and rel      *)
(* tables MESSAGE, VERSION_OF, TOOL_USE.  Ids (uuid4) and created_at       *)
(* (datetime.now) are both drawn from one strictly increasing counter:     *)
(* every object constructed gets the next tick as its id and created_at.   *)
(***************************************************************************)
EXTENDS Integers, Sequences, FiniteSets, TLC

(***************************************************************************)
(* Bounds and input alphabets                                              *)
(***************************************************************************)
MaxChainNodes == 4
MaxResNodes == 3
MaxTrace == 2
MaxMovedTrace == 3
MaxTraceNodes == 2
MaxAsyncNodes == 2
MaxScratchNodes == 1
MaxTasks == 2
MaxRetrNodes == 3
MaxLimit == 2
MaxSearchNodes == 3
MaxScore == 2
MaxTouches == 1
MaxUpsertNodes == 3
MaxSegments == 2
MaxWeightNodes == 2
MaxNsNodes == 3
MaxRoundTripNodes == 3
MaxToolNameNodes == 3
MaxLifeNodes == 3
MaxRecoveryNodes == 2
MaxInterleavedNodes == 2

Conversations == {"cA", "cB"}
ToolCallIds == {"c1"}
Contents == {"AAA", "BBB"}

NoUri == ""
NoId == ""

ArgsPathA == [path |-> "/tmp/a"]
ArgsUrlX == [url |-> "https://h/x"]
ArgsCmd == [command |-> "ls"]

ReadA == [id |-> "c1", name |-> "read_file", args |-> ArgsPathA]
FetchX == [id |-> "c1", name |-> "fetch url", args |-> ArgsUrlX]
Bash == [id |-> "c1", name |-> "bash", args |-> ArgsCmd]
\* a read whose tool_call_id no tool message ever carries
ReadNoResult == [id |-> "c2", name |-> "read_file", args |-> ArgsPathA]

UserMsg(content) ==
    [role |-> "user", content |-> content, tool_calls |-> <<>>, tool_call_id |-> NoId]
AssistantMsg(content, tool_calls) ==
    [role |-> "assistant", content |-> content, tool_calls |-> tool_calls,
     tool_call_id |-> NoId]
ToolMsg(content, tool_call_id) ==
    [role |-> "tool", content |-> content, tool_calls |-> <<>>,
     tool_call_id |-> tool_call_id]
SystemMsg(content) ==
    [role |-> "system", content |-> content, tool_calls |-> <<>>, tool_call_id |-> NoId]

\* messages of the conversation-chain specification: every role, tool calls
\* that touch no resource
ChainMessages ==
    { UserMsg("Hi"), AssistantMsg("Hello", <<>>), AssistantMsg("Hello", <<Bash>>),
      ToolMsg("AAA", "c1"), SystemMsg("sys") }

\* messages of the resource-versioning specification
ResMessages ==
    { UserMsg("Hi"), AssistantMsg("Hello", <<ReadA>>), AssistantMsg("Hello", <<FetchX>>),
      ToolMsg("AAA", "c1"), ToolMsg("BBB", "c1"), ToolMsg("AAA", NoId), SystemMsg("sys") }

\* messages added one by one between trace imports: those above and an
\* assistant message with a call that names no resource and a call whose
\* result was never supplied
TraceStepMessages == ResMessages \cup { AssistantMsg("Hello", <<Bash, ReadNoResult>>) }

\* messages of the traces handed to import_trace
ChainTraceMessages == { UserMsg("Hi"), AssistantMsg("Hello", <<>>) }
ResTraceMessages ==
    { AssistantMsg("Hello", <<ReadA>>), ToolMsg("AAA", "c1"), ToolMsg("BBB", "c1") }

TraceLists(msgs) == UNION { [1..n -> msgs] : n \in 1..MaxTrace }

\* Which row a "LIMIT 1" without ORDER BY returns when several rows match.
LimitOnePolicies == {"oldest", "newest"}

VARIABLES userTexts, agentTexts, resourceVersions, resources,
          message, version_of, tool_use, vectors, tool_results, clock, callLog,
          twin, tasks, ghost, reply, last_accessed_at, last_accessed, touches,
          namespace, scratch

vars == <<userTexts, agentTexts, resourceVersions, resources,
          message, version_of, tool_use, vectors, tool_results, clock, callLog,
          twin, tasks, ghost, reply, last_accessed_at, last_accessed, touches,
          namespace, scratch>>

(***************************************************************************)
(* Pure helpers                                                            *)
(***************************************************************************)
Max(S) == CHOOSE x \in S : \A y \in S : y <= x

\* hashlib.sha256(content.encode()).hexdigest(): injective on the contents used.
compute_content_hash(content) ==
    CASE content = "AAA" -> "cb1ad2119d8fafb69566510ee712661f9f14b83385006ef92aec47f523a38358"
      [] content = "BBB" -> "dcdb704109a454784b81229d2b05f368692e758bfa33cb61d04c1b93791b0273"
      [] OTHER -> "e3b0c44298fc1c149afbf4c8996fb92427ae41e4649b934ca495991b7852b855"

\* mutant: the name is passed on as the caller wrote it
Upper_skipped(name) == name

\* str.upper() on the tool names used.
Upper(name) ==
    CASE name = "read_file" -> "READ_FILE"
      [] name = "fetch url" -> "FETCH URL"
      [] name = "bash" -> "BASH"
      [] name = "message" -> "MESSAGE"
      [] OTHER -> name

\* str.replace(" ", "_") on the upper-cased tool names used.
ReplaceSpaces(name) ==
    CASE name = "FETCH URL" -> "FETCH_URL"
      [] OTHER -> name

\* _canonicalize_file_uri in global mode (root = None) on the paths used:
\* file:///tmp/a parses to the absolute, symlink-free path /tmp/a.
canonicalize_file_uri(uri) ==
    CASE uri = "file:///tmp/a" -> "file:///tmp/a"
      [] OTHER -> uri

FILE_ARGS == {"path", "file_path", "filepath", "file", "filename"}
URL_ARGS == {"url", "uri", "endpoint"}

StartsWithFileScheme(p) == p \in {"file:///tmp/a"}

FilePrefixed(p) ==
    CASE p = "/tmp/a" -> "file:///tmp/a"
      [] OTHER -> p

\* DefaultResourceExtractor._extract_raw
extract_raw(tool_name, args) ==
    LET files == FILE_ARGS \cap DOMAIN args
        urls == URL_ARGS \cap DOMAIN args
    IN IF files # {}
       THEN LET p == args[CHOOSE a \in files : TRUE]
            IN IF StartsWithFileScheme(p) THEN p ELSE FilePrefixed(p)
       ELSE IF urls # {} THEN args[CHOOSE a \in urls : TRUE]
       ELSE NoUri

\* DefaultResourceExtractor.extract
extract(tool_name, args) ==
    LET raw_uri == extract_raw(tool_name, args)
    IN IF raw_uri # NoUri /\ StartsWithFileScheme(raw_uri)
       THEN canonicalize_file_uri(raw_uri)
       ELSE raw_uri

(***************************************************************************)
(* The store: the tables of both backends plus the ingestion engine's      *)
(* scratch map, threaded through the handlers as one record.  error is set *)
(* when a backend call raised; the exception aborts the rest of the call.  *)
(***************************************************************************)
Store ==
    [ userTexts |-> userTexts, agentTexts |-> agentTexts,
      resourceVersions |-> resourceVersions, resources |-> resources,
      message |-> message, version_of |-> version_of, tool_use |-> tool_use,
      vectors |-> vectors, tool_results |-> tool_results, clock |-> clock,
      callLog |-> <<>>, error |-> FALSE ]

\* uuid4() / datetime.now(UTC) of the next object constructed
Tick(s) == s.clock + 1

MessageNodes(s) == s.userTexts \cup s.agentTexts

\* the row with the greatest created_at (ORDER BY created_at DESC LIMIT 1),
\* as a set of at most one row
Latest(rows) == { r \in rows : \A o \in rows : o.created_at <= r.created_at }
Oldest(rows) == { r \in rows : \A o \in rows : r.created_at <= o.created_at }

\* mutant: the query aggregates with min() instead of max()
get_max_turn_index_min(s, conversation_id) ==
    LET rows == { n.turn_index : n \in { m \in MessageNodes(s) : m.conversation_id = conversation_id } }
    IN IF rows = {} THEN -1 ELSE CHOOSE x \in rows : \A y \in rows : x <= y

\* KuzuGraphStore.get_max_turn_index
get_max_turn_index(s, conversation_id) ==
    LET rows == { n.turn_index : n \in { m \in MessageNodes(s) : m.conversation_id = conversation_id } }
    IN IF rows = {} THEN -1 ELSE Max(rows)

\* mutant: ORDER BY created_at ASC instead of DESC
get_last_agent_text_oldest(s, conversation_id) ==
    Oldest({ a \in s.agentTexts : a.conversation_id = conversation_id })

\* KuzuGraphStore.get_last_agent_text
get_last_agent_text(s, conversation_id) ==
    Latest({ a \in s.agentTexts : a.conversation_id = conversation_id })

\* mutant: the first node of the turn instead of the last
get_last_node_in_turn_oldest(s, conversation_id, turn_index) ==
    Oldest({ n \in MessageNodes(s) :
                n.conversation_id = conversation_id /\ n.turn_index = turn_index })

\* KuzuGraphStore.get_last_node_in_turn
get_last_node_in_turn(s, conversation_id, turn_index) ==
    Latest({ n \in MessageNodes(s) :
                n.conversation_id = conversation_id /\ n.turn_index = turn_index })

\* mutant: the match compares the wrong property and finds no row
MatchResourceByUri_wrong_key(s, uri) == { r \in s.resources : r.conversation_id = uri }

\* the query "MATCH (r:Resource) WHERE r.uri = $uri" shared by
\* get_resource_by_uri and _create_resource
MatchResourceByUri(s, uri) == { r \in s.resources : r.uri = uri }

\* KuzuGraphStore.get_resource_by_uri
get_resource_by_uri(s, uri) == MatchResourceByUri(s, uri)

\* mutant: the lookup matches on the hash of another URI's version only
get_resource_version_by_hash_other_uri(s, uri, content_hash, limit1) ==
    LET rows == { v \in s.resourceVersions : v.uri # uri /\ v.content_hash = content_hash }
    IN IF limit1 = "oldest" THEN Oldest(rows) ELSE Latest(rows)

\* KuzuGraphStore.get_resource_version_by_hash: LIMIT 1 without ORDER BY
get_resource_version_by_hash(s, uri, content_hash, limit1) ==
    LET rows == { v \in s.resourceVersions : v.uri = uri /\ v.content_hash = content_hash }
    IN IF limit1 = "oldest" THEN Oldest(rows) ELSE Latest(rows)

\* mutant: the CREATE of the UserText row is lost
create_user_text_lost(s, node) == s

\* KuzuGraphStore._create_user_text
create_user_text(s, node) == [s EXCEPT !.userTexts = @ \cup {node}]

\* KuzuGraphStore._create_agent_text
create_agent_text(s, node) == [s EXCEPT !.agentTexts = @ \cup {node}]

\* mutant: the CREATE of the ResourceVersion row is lost
create_resource_version_lost(s, node) == s

\* KuzuGraphStore._create_resource_version
create_resource_version(s, node) == [s EXCEPT !.resourceVersions = @ \cup {node}]

\* KuzuGraphStore._create_resource: the CREATE statement
insert_resource(s, node) == [s EXCEPT !.resources = @ \cup {node}]

\* KuzuGraphStore._create_resource (MERGE on uri): the store afterwards
create_resource(s, node) ==
    IF MatchResourceByUri(s, node.uri) # {} THEN s
    ELSE [s EXCEPT !.resources = @ \cup {node}]

\* mutant: the Resource passed in is returned whatever the MATCH found
create_resource_result_new(s, node) == node

\* KuzuGraphStore._create_resource: the Resource returned
create_resource_result(s, node) ==
    LET existing == MatchResourceByUri(s, node.uri)
    IN IF existing # {} THEN CHOOSE r \in existing : TRUE ELSE node

\* mutant: the SET touches last_accessed_at only
update_resource_hash_stale(s, uri, content_hash) == s

\* mutant: the SET also rewrites the hash of the URI's versions
update_resource_hash_versions(s, uri, content_hash) ==
    [s EXCEPT !.resources =
        { IF r.uri = uri THEN [r EXCEPT !.current_content_hash = content_hash] ELSE r
            : r \in @ },
              !.resourceVersions =
        { IF v.uri = uri THEN [v EXCEPT !.content_hash = content_hash] ELSE v
            : v \in @ }]

\* KuzuGraphStore.update_resource_hash
update_resource_hash(s, uri, content_hash) ==
    [s EXCEPT !.resources =
        { IF r.uri = uri THEN [r EXCEPT !.current_content_hash = content_hash] ELSE r
            : r \in @ }]

\* KuzuGraphStore._create_message_edge
create_message_edge(s, edge) ==
    LET UserIds == { n.id : n \in s.userTexts }
        AgentIds == { n.id : n \in s.agentTexts }
        found == \/ edge.source_id \in UserIds /\ edge.target_id \in AgentIds
                 \/ edge.source_id \in AgentIds /\ edge.target_id \in UserIds
                 \/ edge.source_id \in AgentIds /\ edge.target_id \in AgentIds
    IN IF found
       THEN [s EXCEPT !.message = @ \cup
                { [id |-> edge.id, source_id |-> edge.source_id,
                   target_id |-> edge.target_id,
                   conversation_id |-> edge.conversation_id] }]
       ELSE [s EXCEPT !.error = TRUE]

\* mutant: the MATCH drops the version id and links every ResourceVersion
create_tool_use_edge_any_version(s, edge, tool_name) ==
    IF edge.source_id \in { a.id : a \in s.agentTexts }
    THEN [s EXCEPT !.tool_use = @ \cup
            { [id |-> edge.id, source_id |-> edge.source_id,
               target_id |-> v.id, tool_name |-> tool_name,
               conversation_id |-> edge.conversation_id,
               properties |-> edge.properties] : v \in s.resourceVersions }]
    ELSE s

\* KuzuGraphStore._create_tool_use_edge
create_tool_use_edge(s, edge, tool_name) ==
    IF /\ edge.source_id \in { a.id : a \in s.agentTexts }
       /\ edge.target_id \in { v.id : v \in s.resourceVersions }
    THEN [s EXCEPT !.tool_use = @ \cup
            { [id |-> edge.id, source_id |-> edge.source_id,
               target_id |-> edge.target_id, tool_name |-> tool_name,
               conversation_id |-> edge.conversation_id,
               properties |-> edge.properties] }]
    ELSE s

\* KuzuGraphStore._create_relationship
create_relationship(s, edge) ==
    LET rel_type == ReplaceSpaces(Upper(edge.relationship_type))
    IN IF rel_type = "MESSAGE"
       THEN create_message_edge(s, edge)
       ELSE create_tool_use_edge(s, edge, rel_type)

\* mutant: the MATCH drops the resource id and links every Resource
create_version_of_any_resource(s, edge) ==
    IF edge.version_id \in { v.id : v \in s.resourceVersions }
    THEN [s EXCEPT !.version_of = @ \cup
            { [id |-> edge.id, version_id |-> edge.version_id, resource_id |-> r.id]
                : r \in s.resources }]
    ELSE s

\* KuzuGraphStore._create_version_of
create_version_of(s, edge) ==
    IF /\ edge.version_id \in { v.id : v \in s.resourceVersions }
       /\ edge.resource_id \in { r.id : r \in s.resources }
    THEN [s EXCEPT !.version_of = @ \cup
            { [id |-> edge.id, version_id |-> edge.version_id,
               resource_id |-> edge.resource_id] }]
    ELSE s

\* mutant: the row is built but never appended to the table
vector_add_lost(s, node_id, text, conversation_id) == s

\* LanceDBVectorStore.add: appends one row to the table (row is its position)
vector_add(s, node_id, text, conversation_id) ==
    [s EXCEPT !.vectors = @ \cup
        { [row |-> Cardinality(@) + 1, node_id |-> node_id, text |-> text,
           conversation_id |-> conversation_id] }]

\* models/edges.py Relationship(...)
Relationship(id, source_id, target_id, relationship_type, conversation_id, properties) ==
    [ id |-> id, source_id |-> source_id, target_id |-> target_id,
      relationship_type |-> relationship_type,
      conversation_id |-> conversation_id, properties |-> properties ]

(***************************************************************************)
(* Ingestion engine                                                        *)
(***************************************************************************)

\* mutant: a tool call without a recorded result is given empty content
recorded_result_default(s, tool_call) ==
    IF tool_call.id \in DOMAIN s.tool_results
    THEN {s.tool_results[tool_call.id]} ELSE {""}

\* the scratch-map lookup of _process_tool_call: the content recorded for
\* the tool call's id, as a set of at most one string
recorded_result(s, tool_call) ==
    IF tool_call.id \in DOMAIN s.tool_results
    THEN {s.tool_results[tool_call.id]} ELSE {}

\* TraceMem._process_tool_call
process_tool_call(s, agent_text, tool_call, conversation_id, limit1) ==
    LET resource_uri == extract(tool_call.name, tool_call.args)
    IN
    IF resource_uri = NoUri THEN s
    ELSE IF recorded_result(s, tool_call) = {} THEN s
    ELSE
    LET content == CHOOSE c \in recorded_result(s, tool_call) : TRUE
        content_hash == compute_content_hash(content)
        canonical_uri == resource_uri
        existing_resource == get_resource_by_uri(s, canonical_uri)
    IN
    IF existing_resource # {}
    THEN
        LET resource == CHOOSE r \in existing_resource : TRUE
        IN
        IF resource.current_content_hash # content_hash
        THEN
            LET version == [ id |-> Tick(s), content_hash |-> content_hash,
                             uri |-> canonical_uri,
                             conversation_id |-> conversation_id,
                             created_at |-> Tick(s) ]
                s1 == create_resource_version([s EXCEPT !.clock = Tick(s)], version)
                s2 == update_resource_hash(s1, canonical_uri, content_hash)
                version_edge == [ id |-> Tick(s2), version_id |-> version.id,
                                  resource_id |-> resource.id ]
                s3 == create_version_of([s2 EXCEPT !.clock = Tick(s2)], version_edge)
                tool_edge == Relationship(Tick(s3), agent_text.id, version.id,
                                          Upper(tool_call.name), conversation_id,
                                          tool_call.args)
            IN create_relationship([s3 EXCEPT !.clock = Tick(s3)], tool_edge)
        ELSE
            LET existing_version ==
                    get_resource_version_by_hash(s, canonical_uri, content_hash, limit1)
            IN
            IF existing_version # {}
            THEN LET tool_edge ==
                        Relationship(Tick(s), agent_text.id,
                                     (CHOOSE v \in existing_version : TRUE).id,
                                     Upper(tool_call.name), conversation_id,
                                     tool_call.args)
                 IN create_relationship([s EXCEPT !.clock = Tick(s)], tool_edge)
            ELSE s
    ELSE
        LET new_resource == [ id |-> Tick(s), uri |-> canonical_uri,
                              current_content_hash |-> content_hash,
                              conversation_id |-> conversation_id,
                              created_at |-> Tick(s) ]
            s0 == [s EXCEPT !.clock = Tick(s)]
            resource == create_resource_result(s0, new_resource)
            s1 == create_resource(s0, new_resource)
            version == [ id |-> Tick(s1), content_hash |-> content_hash,
                         uri |-> canonical_uri,
                         conversation_id |-> conversation_id,
                         created_at |-> Tick(s1) ]
            s2 == create_resource_version([s1 EXCEPT !.clock = Tick(s1)], version)
            version_edge == [ id |-> Tick(s2), version_id |-> version.id,
                              resource_id |-> resource.id ]
            s3 == create_version_of([s2 EXCEPT !.clock = Tick(s2)], version_edge)
            tool_edge == Relationship(Tick(s3), agent_text.id, version.id,
                                      Upper(tool_call.name), conversation_id,
                                      tool_call.args)
        IN create_relationship([s3 EXCEPT !.clock = Tick(s3)], tool_edge)

\* What one _process_tool_call did: the rows it added to each table (the
\* ids it reports through `created`), with the Resource hash it found.
CallRecord(s, t, agent_text, tool_call) ==
    [ agent_id |-> agent_text.id,
      conversation_id |-> agent_text.conversation_id,
      tool_call |-> tool_call,
      uri |-> extract(tool_call.name, tool_call.args),
      content |-> IF tool_call.id \in DOMAIN s.tool_results
                  THEN {s.tool_results[tool_call.id]} ELSE {},
      hash_before |-> { r.current_content_hash :
                          r \in MatchResourceByUri(s, extract(tool_call.name, tool_call.args)) },
      versions_before |-> { v.id : v \in s.resourceVersions },
      resources_before |-> s.resources,
      resources_after |-> t.resources,
      new_resources |-> t.resources \ s.resources,
      updated |-> { r.id : r \in s.resources \ t.resources },
      new_versions |-> t.resourceVersions \ s.resourceVersions,
      new_version_of |-> t.version_of \ s.version_of,
      new_tool_use |-> t.tool_use \ s.tool_use ]

\* the loop "for tool_call in message.tool_calls" of _add_assistant_message
RECURSIVE process_tool_calls(_, _, _, _, _)
process_tool_calls(s, agent_text, tool_calls, conversation_id, limit1) ==
    IF tool_calls = <<>> \/ s.error THEN s
    ELSE LET t == process_tool_call(s, agent_text, Head(tool_calls), conversation_id, limit1)
             logged == [t EXCEPT !.callLog =
                            Append(@, CallRecord(s, t, agent_text, Head(tool_calls)))]
         IN process_tool_calls(logged, agent_text, Tail(tool_calls), conversation_id, limit1)

\* mutant: a user message stays in the current turn
user_turn_index_no_increment(max_turn) == IF max_turn > 0 THEN max_turn ELSE 0

\* turn_index of a new UserText (_add_user_message)
user_turn_index(max_turn) == max_turn + 1

\* mutant: turn_index left at the AgentText default
assistant_turn_index_default(max_turn) == 0

\* turn_index of a new AgentText (_add_assistant_message)
assistant_turn_index(max_turn) == IF max_turn > 0 THEN max_turn ELSE 0

\* TraceMem._add_user_message
add_user_message(s, conversation_id, msg) ==
    LET max_turn == get_max_turn_index(s, conversation_id)
        turn_index == user_turn_index(max_turn)
        last_agent == get_last_agent_text(s, conversation_id)
        user_text == [ id |-> Tick(s), label |-> "UserText", text |-> msg.content,
                       conversation_id |-> conversation_id,
                       turn_index |-> turn_index, created_at |-> Tick(s),
                       tool_uses |-> <<>> ]
        s1 == create_user_text([s EXCEPT !.clock = Tick(s)], user_text)
        s2 == IF last_agent # {}
              THEN create_relationship(
                      [s1 EXCEPT !.clock = Tick(s1)],
                      Relationship(Tick(s1), (CHOOSE a \in last_agent : TRUE).id,
                                   user_text.id, "MESSAGE", conversation_id, <<>>))
              ELSE s1
    IN IF s2.error THEN s2
       ELSE vector_add(s2, user_text.id, user_text.text, conversation_id)

\* TraceMem._add_assistant_message
add_assistant_message(s, conversation_id, msg, limit1) ==
    LET max_turn == get_max_turn_index(s, conversation_id)
        turn_index == assistant_turn_index(max_turn)
        last_node == get_last_node_in_turn(s, conversation_id, turn_index)
        tool_uses == msg.tool_calls
        agent_text == [ id |-> Tick(s), label |-> "AgentText", text |-> msg.content,
                        conversation_id |-> conversation_id,
                        turn_index |-> turn_index, created_at |-> Tick(s),
                        tool_uses |-> tool_uses ]
        s1 == create_agent_text([s EXCEPT !.clock = Tick(s)], agent_text)
        s2 == IF last_node # {}
              THEN create_relationship(
                      [s1 EXCEPT !.clock = Tick(s1)],
                      Relationship(Tick(s1), (CHOOSE n \in last_node : TRUE).id,
                                   agent_text.id, "MESSAGE", conversation_id, <<>>))
              ELSE s1
    IN process_tool_calls(s2, agent_text, msg.tool_calls, conversation_id, limit1)

\* the tool branch of add_message:
\* self._tool_results[message.tool_call_id] = message.content
store_tool_result(s, msg) ==
    [s EXCEPT !.tool_results =
        [i \in DOMAIN @ \cup {msg.tool_call_id} |->
            IF i = msg.tool_call_id THEN msg.content ELSE @[i]]]

\* TraceMem.add_message
add_message(s, conversation_id, msg, limit1) ==
    IF msg.role = "user" THEN add_user_message(s, conversation_id, msg)
    ELSE IF msg.role = "assistant"
    THEN add_assistant_message(s, conversation_id, msg, limit1)
    ELSE IF msg.role = "tool" /\ msg.tool_call_id # NoId
    THEN store_tool_result(s, msg)
    ELSE s

\* first pass of import_trace: clear the scratch map, collect tool results
RECURSIVE collect_tool_results(_, _)
collect_tool_results(results, messages) ==
    IF messages = <<>> THEN results
    ELSE LET msg == Head(messages)
             next == IF msg.role = "tool" /\ msg.tool_call_id # NoId
                     THEN [i \in DOMAIN results \cup {msg.tool_call_id} |->
                             IF i = msg.tool_call_id THEN msg.content ELSE results[i]]
                     ELSE results
         IN collect_tool_results(next, Tail(messages))

\* second pass of import_trace: add_message each message in order
RECURSIVE add_messages(_, _, _, _)
add_messages(s, conversation_id, messages, limit1) ==
    IF messages = <<>> \/ s.error THEN s
    ELSE add_messages(add_message(s, conversation_id, Head(messages), limit1),
                      conversation_id, Tail(messages), limit1)

\* TraceMem.import_trace
import_trace(s, conversation_id, messages, limit1) ==
    add_messages([s EXCEPT !.tool_results = collect_tool_results(<<>>, messages)],
                 conversation_id, messages, limit1)

(***************************************************************************)
(* Specification: calls are made one after the other and every call        *)
(* returns without raising.                                                *)
(***************************************************************************)
\* twin holds, after an import_trace, the Resources, ResourceVersions and
\* ToolUseEdges the same import would have left had its tool messages been
\* placed differently in the list; NoTwin after any other call.
NoTwin ==
    [resources |-> {}, resourceVersions |-> {}, tool_use |-> {},
     moved |-> FALSE]

\* An add_message or import_trace call in flight.  pc names the step it
\* runs next; queue holds the messages not yet finished, the current one
\* first; the other fields are the locals of the handlers.
IdleTask ==
    [ pc |-> "idle", kind |-> "", conversation_id |-> "", queue |-> <<>>,
      pending |-> 0, max_turn |-> -1, last |-> {}, node |-> {}, calls |-> <<>>,
      uri |-> NoUri, content_hash |-> "", resource |-> {}, version |-> {},
      changed |-> FALSE, existing |-> {} ]

Slots == 1..MaxTasks

\* History of the scratch map, kept beside the program state:
\*   origin[id]  the conversation and the invocation that recorded the
\*               entry tool_results[id] (slot 0: an add_message call or an
\*               import_trace that has ended),
\*   alone[c]    the scratch map as the calls of conversation c alone would
\*               have left it,
\*   posted[id]  the content most recently supplied for id by an
\*               add_message call of a tool message,
\*   seen[j]     posted, as it was when the add_message call in slot j was
\*               made.
NoGhost ==
    [ origin |-> <<>>, alone |-> [c \in Conversations |-> <<>>], posted |-> <<>>,
      seen |-> [j \in Slots |-> <<>>] ]

\* reply is what the last call returned to its caller, where a
\* specification records it; NoReply otherwise.
NoReply == [call |-> "none"]

\* last_accessed_at[id] (graph store) and last_accessed[node_id] (vector
\* store) hold the time of the last touch of a row, counted in touching
\* calls; a row never touched still carries the time of its creation and
\* has no entry.  touches counts the calls that touched rows.
Unaccessed == UNCHANGED <<last_accessed_at, last_accessed, touches>>

\* Two TraceMem instances over one Neo4j database, each with a graph
\* store constructed with its own namespace and each with its own scratch
\* map: namespace[id] is the n.namespace that the node was created with,
\* scratch[ns] the _tool_results of the instance of namespace ns.
Namespaces == {"nsA", "nsB"}

Untouched == Unaccessed /\ UNCHANGED <<namespace, scratch>>

Init ==
    /\ userTexts = {} /\ agentTexts = {} /\ resourceVersions = {} /\ resources = {}
    /\ message = {} /\ version_of = {} /\ tool_use = {} /\ vectors = {}
    /\ tool_results = <<>>
    /\ clock = 0
    /\ callLog = <<>>
    /\ twin = NoTwin
    /\ tasks = [k \in Slots |-> IdleTask]
    /\ ghost = NoGhost
    /\ reply = NoReply
    /\ last_accessed_at = <<>> /\ last_accessed = <<>> /\ touches = 0
    /\ namespace = <<>> /\ scratch = [ns \in Namespaces |-> <<>>]

\* the call returned without raising: the stores and the scratch map are as
\* the call left them
StoreBecomes(t) ==
    /\ userTexts' = t.userTexts /\ agentTexts' = t.agentTexts
    /\ resourceVersions' = t.resourceVersions /\ resources' = t.resources
    /\ message' = t.message /\ version_of' = t.version_of /\ tool_use' = t.tool_use
    /\ vectors' = t.vectors /\ tool_results' = t.tool_results
    /\ clock' = t.clock

CommitStore(t) ==
    /\ ~t.error
    /\ StoreBecomes(t)
    /\ callLog' = t.callLog
    /\ UNCHANGED <<tasks, ghost, reply>>
    /\ Untouched

Commit(t) ==
    /\ CommitStore(t)
    /\ twin' = NoTwin

\* the number of message nodes a list of messages adds
NodesAdded(messages) ==
    Cardinality({ i \in DOMAIN messages : messages[i].role \in {"user", "assistant"} })

\* the bound of the model: at most MaxNodes message nodes in the graph
Room(messages, MaxNodes) ==
    Cardinality(userTexts) + Cardinality(agentTexts) + NodesAdded(messages) <= MaxNodes

\* LIMIT 1 is only evaluated while a tool call is processed
Policies(messages) ==
    IF \E i \in DOMAIN messages : messages[i].tool_calls # <<>>
    THEN LimitOnePolicies ELSE {"oldest"}

AddMessage(msgs, MaxNodes) ==
    \E conversation_id \in Conversations, msg \in msgs :
      /\ Room(<<msg>>, MaxNodes)
      /\ \E limit1 \in Policies(<<msg>>) :
            Commit(add_message(Store, conversation_id, msg, limit1))

ImportTrace(msgs, MaxNodes) ==
    \E conversation_id \in Conversations, messages \in TraceLists(msgs) :
      /\ Room(messages, MaxNodes)
      /\ \E limit1 \in Policies(messages) :
            Commit(import_trace(Store, conversation_id, messages, limit1))

NextChain ==
    \/ AddMessage(ChainMessages, MaxChainNodes)
    \/ ImportTrace(ChainTraceMessages, MaxChainNodes)

SpecChain == Init /\ [][NextChain]_vars

Next ==
    \/ AddMessage(ResMessages, MaxResNodes)
    \/ ImportTrace(ResTraceMessages, MaxResNodes)

Spec == Init /\ [][Next]_vars

(***************************************************************************)
(* Specification of trace imports: every import_trace is run on the list   *)
(* given and, beside it, on the same list with its tool messages moved     *)
(* (the tool messages keep their order among themselves, the other         *)
(* messages theirs); the second outcome is kept in twin.                   *)
(***************************************************************************)
IsToolMsg(m) == m.role = "tool"
IsOtherMsg(m) == m.role # "tool"

\* m2 is m1 with tool messages moved across non-tool messages
ToolMessagesMoved(m1, m2) ==
    /\ Len(m1) = Len(m2)
    /\ m1 # m2
    /\ SelectSeq(m1, IsToolMsg) = SelectSeq(m2, IsToolMsg)
    /\ SelectSeq(m1, IsOtherMsg) = SelectSeq(m2, IsOtherMsg)

MovedLists == UNION { [1..n -> ResTraceMessages] : n \in 1..MaxMovedTrace }

MovedTraces ==
    { p \in MovedLists \X MovedLists : ToolMessagesMoved(p[1], p[2]) }

ImportTraceMoved(MaxNodes) ==
    \E conversation_id \in Conversations, p \in MovedTraces :
      /\ Room(p[1], MaxNodes)
      /\ \E limit1 \in LimitOnePolicies :
            LET t1 == import_trace(Store, conversation_id, p[1], limit1)
                t2 == import_trace(Store, conversation_id, p[2], limit1)
            IN /\ ~t2.error
               /\ CommitStore(t1)
               /\ twin' = [resources |-> t2.resources,
                           resourceVersions |-> t2.resourceVersions,
                           tool_use |-> t2.tool_use, moved |-> TRUE]

NextTrace ==
    \/ AddMessage(TraceStepMessages, MaxTraceNodes)
    \/ ImportTraceMoved(MaxTraceNodes)

SpecTrace == Init /\ [][NextTrace]_vars

(***************************************************************************)
(* Calls in flight.  add_message and import_trace are coroutines: every    *)
(* graph-store call and the embedder call is a suspension point (the       *)
(* vector store's add does not suspend).  A task runs one step at a time;  *)
(* a step is one store call together with the construction of the object   *)
(* it writes, or one block of synchronous code that touches the scratch    *)
(* map.  Steps of different tasks interleave freely.                       *)
(***************************************************************************)
\* messages of the specification of interleaved and failing calls
AsyncMessages == { UserMsg("Hi"), AssistantMsg("Hello", <<>>) }

\* messages of the specification of the scratch map under interleaved calls
ScratchMessages ==
    { AssistantMsg("Hello", <<ReadA>>), ToolMsg("AAA", "c1"), ToolMsg("BBB", "c1") }

ScratchTraceMessages == { AssistantMsg("Hello", <<ReadA>>), ToolMsg("AAA", "c1") }

\* messages add_message returns from without doing anything
Ignored(msg) ==
    ~ \/ msg.role \in {"user", "assistant"}
      \/ msg.role = "tool" /\ msg.tool_call_id # NoId

RECURSIVE skip_ignored(_)
skip_ignored(messages) ==
    IF messages = <<>> THEN <<>>
    ELSE IF Ignored(Head(messages)) THEN skip_ignored(Tail(messages))
    ELSE messages

\* the task when add_message is entered for the first of `messages` that
\* does something; the call has returned when none is left
next_message(k, messages) ==
    LET q == skip_ignored(messages)
    IN IF q = <<>> THEN IdleTask
       ELSE [IdleTask EXCEPT !.kind = k.kind, !.conversation_id = k.conversation_id,
                             !.queue = q, !.pending = k.pending,
                             !.pc = IF Head(q).role = "tool"
                                    THEN "store_tool_result"
                                    ELSE "get_max_turn_index"]

\* the early returns of _process_tool_call
Unresolved(s, tool_call) ==
    \/ extract(tool_call.name, tool_call.args) = NoUri
    \/ recorded_result(s, tool_call) = {}

RECURSIVE skip_unresolved(_, _)
skip_unresolved(s, calls) ==
    IF calls = <<>> THEN <<>>
    ELSE IF Unresolved(s, Head(calls)) THEN skip_unresolved(s, Tail(calls))
    ELSE calls

\* the loop over message.tool_calls, entered for the calls left: runs
\* without suspending up to the first call that reaches the graph store
begin_tool_call(s, k, calls) ==
    LET rest == skip_unresolved(s, calls)
    IN IF rest = <<>> THEN next_message(k, Tail(k.queue))
       ELSE [k EXCEPT !.calls = rest,
                      !.uri = extract(Head(rest).name, Head(rest).args),
                      !.content_hash = compute_content_hash(
                            CHOOSE x \in recorded_result(s, Head(rest)) : TRUE),
                      !.resource = {}, !.version = {}, !.changed = FALSE,
                      !.pc = "get_resource_by_uri"]

\* One step of task k on store s: the store and the task afterwards.
step(s, k, limit1) ==
    LET c == k.conversation_id
        msg == Head(k.queue)
        node == CHOOSE n \in k.node : TRUE
        last == CHOOSE n \in k.last : TRUE
        tool_call == Head(k.calls)
        ticked == [s EXCEPT !.clock = Tick(s)]
        new_resource == [ id |-> Tick(s), uri |-> k.uri,
                          current_content_hash |-> k.content_hash,
                          conversation_id |-> c, created_at |-> Tick(s) ]
        created == IF k.kind = "create_node" THEN "idle" ELSE "create_resource_version"
    IN
    CASE k.pc = "collect_tool_results" ->
            [ s |-> [s EXCEPT !.tool_results = collect_tool_results(<<>>, k.queue)],
              k |-> next_message(k, k.queue) ]
      [] k.pc = "store_tool_result" ->
            [ s |-> store_tool_result(s, msg),
              k |-> next_message(k, Tail(k.queue)) ]
      [] k.pc = "get_max_turn_index" ->
            [ s |-> s,
              k |-> [k EXCEPT !.max_turn = get_max_turn_index(s, c),
                              !.pc = IF msg.role = "user"
                                     THEN "get_last_agent_text"
                                     ELSE "get_last_node_in_turn"] ]
      [] k.pc = "get_last_agent_text" ->
            [ s |-> s,
              k |-> [k EXCEPT !.last = get_last_agent_text(s, c),
                              !.pc = "create_user_text"] ]
      [] k.pc = "get_last_node_in_turn" ->
            [ s |-> s,
              k |-> [k EXCEPT !.last = get_last_node_in_turn(
                                            s, c, assistant_turn_index(k.max_turn)),
                              !.pc = "create_agent_text"] ]
      [] k.pc = "create_user_text" ->
            LET user_text == [ id |-> Tick(s), label |-> "UserText",
                               text |-> msg.content, conversation_id |-> c,
                               turn_index |-> user_turn_index(k.max_turn),
                               created_at |-> Tick(s), tool_uses |-> <<>> ]
            IN [ s |-> create_user_text(ticked, user_text),
                 k |-> [k EXCEPT !.node = {user_text}, !.pending = @ - 1,
                                 !.pc = IF k.last # {} THEN "create_message_edge"
                                        ELSE "embed"] ]
      [] k.pc = "create_agent_text" ->
            LET agent_text == [ id |-> Tick(s), label |-> "AgentText",
                                text |-> msg.content, conversation_id |-> c,
                                turn_index |-> assistant_turn_index(k.max_turn),
                                created_at |-> Tick(s), tool_uses |-> msg.tool_calls ]
            IN [ s |-> create_agent_text(ticked, agent_text),
                 k |-> [k EXCEPT !.node = {agent_text}, !.pending = @ - 1,
                                 !.calls = msg.tool_calls,
                                 !.pc = IF k.last # {} THEN "create_message_edge"
                                        ELSE "begin_tool_call"] ]
      [] k.pc = "create_message_edge" ->
            [ s |-> create_relationship(
                        ticked, Relationship(Tick(s), last.id, node.id, "MESSAGE", c, <<>>)),
              k |-> [k EXCEPT !.pc = IF msg.role = "user" THEN "embed"
                                     ELSE "begin_tool_call"] ]
      [] k.pc = "embed" ->
            [ s |-> s, k |-> [k EXCEPT !.pc = "vector_add"] ]
      [] k.pc = "vector_add" ->
            [ s |-> vector_add(s, node.id, node.text, c),
              k |-> next_message(k, Tail(k.queue)) ]
      [] k.pc = "begin_tool_call" ->
            [ s |-> s, k |-> begin_tool_call(s, k, k.calls) ]
      [] k.pc = "get_resource_by_uri" ->
            LET existing_resource == get_resource_by_uri(s, k.uri)
                differs == \E r \in existing_resource :
                                r.current_content_hash # k.content_hash
            IN [ s |-> s,
                 k |-> [k EXCEPT !.resource = existing_resource,
                                 !.changed = differs,
                                 !.pc = IF existing_resource = {} THEN "create_resource"
                                        ELSE IF differs THEN "create_resource_version"
                                        ELSE "get_resource_version_by_hash"] ]
      [] k.pc = "create_resource" ->
            \* the MATCH of _create_resource, and its return of the row found
            LET existing == MatchResourceByUri(s, k.uri)
            IN IF existing # {}
               THEN [ s |-> s,
                      k |-> [k EXCEPT !.existing = existing,
                                      !.resource = {create_resource_result(s, new_resource)},
                                      !.pc = created] ]
               ELSE [ s |-> s, k |-> [k EXCEPT !.pc = "insert_resource"] ]
      [] k.pc = "insert_resource" ->
            \* the CREATE of _create_resource, a statement of its own
            [ s |-> insert_resource(ticked, new_resource),
              k |-> [k EXCEPT !.resource = {new_resource}, !.pc = created] ]
      [] k.pc = "create_resource_version" ->
            LET version == [ id |-> Tick(s), content_hash |-> k.content_hash,
                             uri |-> k.uri, conversation_id |-> c,
                             created_at |-> Tick(s) ]
            IN [ s |-> create_resource_version(ticked, version),
                 k |-> [k EXCEPT !.version = {version},
                                 !.pc = IF k.changed THEN "update_resource_hash"
                                        ELSE "create_version_of"] ]
      [] k.pc = "update_resource_hash" ->
            [ s |-> update_resource_hash(s, k.uri, k.content_hash),
              k |-> [k EXCEPT !.pc = "create_version_of"] ]
      [] k.pc = "create_version_of" ->
            [ s |-> create_version_of(
                        ticked,
                        [ id |-> Tick(s),
                          version_id |-> (CHOOSE v \in k.version : TRUE).id,
                          resource_id |-> (CHOOSE r \in k.resource : TRUE).id ]),
              k |-> [k EXCEPT !.pc = "create_tool_edge"] ]
      [] k.pc = "get_resource_version_by_hash" ->
            LET existing_version ==
                    get_resource_version_by_hash(s, k.uri, k.content_hash, limit1)
            IN [ s |-> s,
                 k |-> IF existing_version = {}
                       THEN [k EXCEPT !.calls = Tail(@), !.pc = "begin_tool_call"]
                       ELSE [k EXCEPT !.version = existing_version,
                                      !.pc = "create_tool_edge"] ]
      [] k.pc = "create_tool_edge" ->
            [ s |-> create_relationship(
                        ticked,
                        Relationship(Tick(s), node.id,
                                     (CHOOSE v \in k.version : TRUE).id,
                                     Upper(tool_call.name), c, tool_call.args)),
              k |-> [k EXCEPT !.calls = Tail(@), !.pc = "begin_tool_call"] ]

\* a task run without interruption until its call returns or raises
RECURSIVE run(_, _, _)
run(s, k, limit1) ==
    IF k.pc = "idle" \/ s.error THEN s
    ELSE LET r == step(s, k, limit1) IN run(r.s, r.k, limit1)

\* the task of a call that has just been made
new_task(kind, conversation_id, messages) ==
    IF kind = "import_trace"
    THEN [IdleTask EXCEPT !.kind = kind, !.conversation_id = conversation_id,
                          !.queue = messages, !.pending = NodesAdded(messages),
                          !.pc = "collect_tool_results"]
    ELSE next_message([IdleTask EXCEPT !.kind = kind,
                                       !.conversation_id = conversation_id,
                                       !.pending = NodesAdded(messages)],
                      messages)

\* f with key mapped to val
Put(f, key, val) == [i \in DOMAIN f \cup {key} |-> IF i = key THEN val ELSE f[i]]

\* f[key] as a set of at most one value
Lookup(f, key) == IF key \in DOMAIN f THEN {f[key]} ELSE {}

\* the history of the scratch map after the step task k in slot j runs next
ghost_step(g, j, k) ==
    LET c == k.conversation_id
        msg == Head(k.queue)
        collected == collect_tool_results(<<>>, k.queue)
    IN CASE k.pc = "collect_tool_results" ->
              [g EXCEPT !.origin = [i \in DOMAIN collected |->
                                       [conversation_id |-> c, kind |-> "import_trace",
                                        slot |-> j]],
                        !.alone[c] = collected]
         [] k.pc = "store_tool_result" ->
              [g EXCEPT !.origin = Put(@, msg.tool_call_id,
                                       [conversation_id |-> c, kind |-> k.kind,
                                        slot |-> IF k.kind = "import_trace" THEN j ELSE 0]),
                        !.alone[c] = Put(@, msg.tool_call_id, msg.content),
                        !.posted = IF k.kind = "add_message"
                                   THEN Put(@, msg.tool_call_id, msg.content) ELSE @]
         [] OTHER -> g

\* the invocation in slot j has ended: its entries belong to a past invocation
ghost_retire(g, j) ==
    [g EXCEPT !.origin = [i \in DOMAIN @ |->
                            IF @[i].slot = j THEN [@[i] EXCEPT !.slot = 0] ELSE @[i]],
              !.seen[j] = <<>>]

\* what the tool calls examined by a begin_tool_call step found in the
\* scratch map, beside its history
ToolCallLog(s, g, j, k) ==
    LET rest == skip_unresolved(s, k.calls)
        n == Len(k.calls) - Len(rest) + (IF rest = <<>> THEN 0 ELSE 1)
    IN [ i \in 1..n |->
            [ slot |-> j, kind |-> k.kind, conversation_id |-> k.conversation_id,
              agent_id |-> (CHOOSE a \in k.node : TRUE).id,
              tool_call |-> k.calls[i],
              uri |-> extract(k.calls[i].name, k.calls[i].args),
              content |-> recorded_result(s, k.calls[i]),
              origin |-> Lookup(g.origin, k.calls[i].id),
              alone |-> Lookup(g.alone[k.conversation_id], k.calls[i].id),
              posted |-> Lookup(g.posted, k.calls[i].id),
              seen |-> Lookup(g.seen[j], k.calls[i].id) ] ]

RECURSIVE PendingNodes(_)
PendingNodes(n) == IF n = 0 THEN 0 ELSE tasks[n].pending + PendingNodes(n - 1)

\* the bound of the model: message nodes in the graph plus those the calls
\* in flight will still create
AsyncRoom(messages, MaxNodes) ==
    Cardinality(userTexts) + Cardinality(agentTexts) + PendingNodes(MaxTasks)
        + NodesAdded(messages) <= MaxNodes

FreeSlot(j) ==
    /\ tasks[j].pc = "idle"
    /\ \A i \in Slots : tasks[i].pc = "idle" => j <= i

UnchangedStore ==
    UNCHANGED <<userTexts, agentTexts, resourceVersions, resources, message,
                version_of, tool_use, vectors, tool_results, clock>>

\* add_message is called
StartAddMessage(msgs, MaxNodes) ==
    \E j \in Slots, conversation_id \in Conversations, msg \in msgs :
      /\ FreeSlot(j)
      /\ AsyncRoom(<<msg>>, MaxNodes)
      /\ tasks' = [tasks EXCEPT ![j] = new_task("add_message", conversation_id, <<msg>>)]
      /\ ghost' = [ghost EXCEPT !.seen[j] = ghost.posted]
      /\ callLog' = <<>>
      /\ UnchangedStore
      /\ UNCHANGED <<twin, reply>>
      /\ Untouched

\* import_trace is called
StartImportTrace(msgs, MaxNodes) ==
    \E j \in Slots, conversation_id \in Conversations, messages \in TraceLists(msgs) :
      /\ FreeSlot(j)
      /\ AsyncRoom(messages, MaxNodes)
      /\ tasks' = [tasks EXCEPT ![j] = new_task("import_trace", conversation_id, messages)]
      /\ callLog' = <<>>
      /\ UnchangedStore
      /\ UNCHANGED <<twin, ghost, reply>>
      /\ Untouched

\* a call in flight runs its next step; a store call that raises ends it
Step ==
    \E j \in Slots :
      /\ tasks[j].pc # "idle"
      /\ \E limit1 \in IF tasks[j].pc = "get_resource_version_by_hash"
                       THEN LimitOnePolicies ELSE {"oldest"} :
            \E r \in {step(Store, tasks[j], limit1)},
               g \in {ghost_step(ghost, j, tasks[j])} :
               \E ended \in {r.s.error \/ r.k.pc = "idle"} :
                 /\ StoreBecomes(r.s)
                 /\ tasks' = [tasks EXCEPT ![j] = IF ended THEN IdleTask ELSE r.k]
                 /\ ghost' = IF ended THEN ghost_retire(g, j) ELSE g
                 /\ callLog' = IF tasks[j].pc = "begin_tool_call"
                               THEN ToolCallLog(Store, ghost, j, tasks[j]) ELSE <<>>
                 /\ reply' = IF tasks[j].kind = "create_node" /\ ended
                              THEN [ call |-> "create_node", uri |-> tasks[j].uri,
                                     content_hash |-> tasks[j].content_hash,
                                     existing |-> r.k.existing,
                                     returned |-> r.k.resource,
                                     before |-> resources ]
                              ELSE NoReply
                 /\ UNCHANGED twin
                 /\ Untouched

\* a call in flight is cancelled, or the call it awaits raises, at its
\* current suspension point
Fail ==
    \E j \in Slots :
      /\ tasks[j].pc # "idle"
      /\ tasks' = [tasks EXCEPT ![j] = IdleTask]
      /\ ghost' = ghost_retire(ghost, j)
      /\ callLog' = <<>>
      /\ UnchangedStore
      /\ UNCHANGED <<twin, reply>>
      /\ Untouched

NextAsync ==
    \/ StartAddMessage(AsyncMessages, MaxAsyncNodes)
    \/ StartImportTrace(AsyncMessages, MaxAsyncNodes)
    \/ Step
    \/ Fail

SpecAsync == Init /\ [][NextAsync]_vars

NextScratch ==
    \/ StartAddMessage(ScratchMessages, MaxScratchNodes)
    \/ StartImportTrace(ScratchTraceMessages, MaxScratchNodes)
    \/ Step
    \/ Fail

SpecScratch == Init /\ [][NextScratch]_vars

(***************************************************************************)
(* The graph store called directly: create_node(Resource) from concurrent  *)
(* callers.  Each call runs _create on a thread of its own; its two        *)
(* statements are two steps.                                               *)
(***************************************************************************)
UpsertUris == { "file:///tmp/a", "file:///tmp/b" }

UpsertHashes == { compute_content_hash("AAA"), compute_content_hash("BBB") }

\* create_node(Resource(uri, current_content_hash, conversation_id)) is called
StartCreateNode ==
    \E j \in Slots, conversation_id \in Conversations, uri \in UpsertUris,
       content_hash \in UpsertHashes :
      /\ FreeSlot(j)
      /\ Cardinality(resources)
            + Cardinality({ i \in Slots : tasks[i].pc # "idle" }) < MaxUpsertNodes
      /\ tasks' = [tasks EXCEPT ![j] =
                        [IdleTask EXCEPT !.kind = "create_node",
                                         !.conversation_id = conversation_id,
                                         !.uri = uri, !.content_hash = content_hash,
                                         !.pc = "create_resource"]]
      /\ callLog' = <<>>
      /\ reply' = NoReply
      /\ UnchangedStore
      /\ UNCHANGED <<twin, ghost>>
      /\ Untouched

NextUpsert ==
    \/ StartCreateNode
    \/ Step

SpecUpsert == Init /\ [][NextUpsert]_vars

(***************************************************************************)
(* URI canonicalization, character by character.  A string is the sequence *)
(* of its tokens: a scheme with its colon, a slash, a dot, or a name.      *)
(* The file system holds no symbolic link, so Path.resolve() only makes a  *)
(* path absolute.                                                          *)
(***************************************************************************)
Names == {"root", "src", "a"}

Schemes == {"file:", "https:"}

RECURSIVE Join(_)
\* "/".join(segments)
Join(segments) ==
    IF segments = <<>> THEN <<>>
    ELSE IF Len(segments) = 1 THEN <<Head(segments)>>
    ELSE <<Head(segments), "/">> \o Join(Tail(segments))

\* str(PurePosixPath): a path is [absolute, segments]
PathStr(path) ==
    IF path.absolute THEN <<"/">> \o Join(path.segments)
    ELSE IF path.segments = <<>> THEN <<".">>
    ELSE Join(path.segments)

IsSegment(token) == token # "/" /\ token # "."

\* Path(text): slashes and "." segments collapse
Path(text) ==
    [ absolute |-> text # <<>> /\ Head(text) = "/",
      segments |-> SelectSeq(text, IsSegment) ]

\* the index of the first slash of text, Len(text) + 1 when it has none
FirstSlash(text) ==
    IF \E i \in DOMAIN text : text[i] = "/"
    THEN CHOOSE i \in DOMAIN text : text[i] = "/" /\ \A j \in 1..(i - 1) : text[j] # "/"
    ELSE Len(text) + 1

\* urllib.parse.urlparse: scheme, netloc and path
urlparse(uri) ==
    LET scheme == IF uri # <<>> /\ Head(uri) \in Schemes THEN Head(uri) ELSE ""
        rest == IF scheme = "" THEN uri ELSE Tail(uri)
        slashes == Len(rest) >= 2 /\ rest[1] = "/" /\ rest[2] = "/"
        after == IF slashes THEN SubSeq(rest, 3, Len(rest)) ELSE rest
        cut == FirstSlash(after)
    IN [ scheme |-> scheme,
         netloc |-> IF slashes THEN SubSeq(after, 1, cut - 1) ELSE <<>>,
         path |-> IF slashes THEN SubSeq(after, cut, Len(after)) ELSE rest ]

\* Path.resolve() in working directory cwd
resolve(path, cwd) ==
    IF path.absolute THEN path
    ELSE [absolute |-> TRUE, segments |-> cwd \o path.segments]

IsUnder(path, root) ==
    /\ Len(root) <= Len(path.segments)
    /\ SubSeq(path.segments, 1, Len(root)) = root

\* Path.relative_to(root), taken when IsUnder
relative_to(path, root) ==
    [ absolute |-> FALSE,
      segments |-> SubSeq(path.segments, Len(root) + 1, Len(path.segments)) ]

\* root is None
NoRoot == <<"None">>

FileUri(path) == <<"file:", "/", "/">> \o PathStr(path)

\* _canonicalize_file_uri(uri, root), run in working directory cwd
canonicalize(uri, root, cwd) ==
    LET parsed == urlparse(uri)
        path == resolve(IF parsed.scheme = "file:" THEN Path(parsed.path) ELSE Path(uri),
                        cwd)
    IN IF parsed.scheme # "" /\ parsed.scheme # "file:" THEN uri
       ELSE IF root # NoRoot /\ IsUnder(path, root)
       THEN FileUri(relative_to(path, root))
       ELSE FileUri(path)

\* the paths of at most MaxSegments names
SegmentLists == UNION { [1..n -> Names] : n \in 0..MaxSegments }

\* URIs given: an optional scheme, up to three slashes, a path
UriInputs ==
    { scheme \o slashes \o Join(segments) :
        scheme \in {<<>>, <<"file:">>, <<"https:">>},
        slashes \in {<<>>, <<"/">>, <<"/", "/">>, <<"/", "/", "/">>},
        segments \in SegmentLists }

\* project roots: none (global mode), or home.parent resolved
Roots == {NoRoot, <<"root">>, <<"root", "src">>}

WorkingDirectories == {<<"root">>, <<"root", "src">>, <<>>}

\* _canonicalize_file_uri is called; the function is pure, so one call
\* is followed in a behaviour
Canonicalize ==
    \E uri \in UriInputs, root \in Roots, cwd \in WorkingDirectories :
      /\ reply = NoReply
      /\ reply' = [call |-> "canonicalize", uri |-> uri, root |-> root, cwd |-> cwd,
                   result |-> canonicalize(uri, root, cwd)]
      /\ UnchangedStore
      /\ UNCHANGED <<callLog, twin, tasks, ghost>>
      /\ Untouched

NextCanonicalize == Canonicalize

SpecCanonicalize == Init /\ [][NextCanonicalize]_vars

(***************************************************************************)
(* What add_message returns                                                *)
(***************************************************************************)
\* a key of the map `created`: "user_text", "agent_text",
\* "resource_<uri>" or "resource_version_<uri>"
Key(kind, uri) == [kind |-> kind, uri |-> uri]

\* created.update(tool_ids) for the tool calls of one assistant message
RECURSIVE tool_ids(_, _)
tool_ids(created, calls) ==
    IF calls = <<>> THEN created
    ELSE LET call == Head(calls)
             c1 == IF call.new_resources # {}
                   THEN Put(created, Key("resource", call.uri),
                            (CHOOSE r \in call.new_resources : TRUE).id)
                   ELSE created
             c2 == IF call.new_versions # {}
                   THEN Put(c1, Key("resource_version", call.uri),
                            (CHOOSE v \in call.new_versions : TRUE).id)
                   ELSE c1
         IN tool_ids(c2, Tail(calls))

\* mutant: every call reports a node
add_message_created_any(s, t, msg) == Put(<<>>, Key("user_text", NoUri), Tick(s))

\* the map add_message returns when it took store s to store t
add_message_created(s, t, msg) ==
    IF msg.role = "user" THEN Put(<<>>, Key("user_text", NoUri), Tick(s))
    ELSE IF msg.role = "assistant"
    THEN tool_ids(Put(<<>>, Key("agent_text", NoUri), Tick(s)), t.callLog)
    ELSE <<>>

\* the call returned `r` without raising
CommitReply(t, r) ==
    /\ ~t.error
    /\ StoreBecomes(t)
    /\ callLog' = t.callLog
    /\ reply' = r
    /\ UNCHANGED <<tasks, ghost, twin>>
    /\ Untouched

\* add_message is called for a conversation of convs and what it returns
\* is kept
AddMessageIn(convs, msgs, MaxNodes) ==
    \E conversation_id \in convs, msg \in msgs :
      /\ Room(<<msg>>, MaxNodes)
      /\ \E limit1 \in Policies(<<msg>>) :
            \E t \in {add_message(Store, conversation_id, msg, limit1)} :
                CommitReply(t, [call |-> "add_message",
                                conversation_id |-> conversation_id,
                                message |-> msg,
                                created |-> add_message_created(Store, t, msg)])

AddMessageReply(msgs, MaxNodes) == AddMessageIn(Conversations, msgs, MaxNodes)

(***************************************************************************)
(* Retrieval over the graph store                                          *)
(***************************************************************************)
Min(a, b) == IF a < b THEN a ELSE b

\* rows in ORDER BY created_at ASC
RECURSIVE OrderByCreatedAt(_)
OrderByCreatedAt(rows) ==
    IF rows = {} THEN <<>>
    ELSE LET first == CHOOSE r \in rows : \A o \in rows : r.created_at <= o.created_at
         IN <<first>> \o OrderByCreatedAt(rows \ {first})

Reverse(seq) == [i \in DOMAIN seq |-> seq[Len(seq) + 1 - i]]

\* the first n elements of seq (LIMIT n, head(n), [:n])
Take(seq, n) == SubSeq(seq, 1, Min(n, Len(seq)))

\* ids of the nodes at the end of a path -[:MESSAGE*0..depth]-> from ids
RECURSIVE Reach(_, _, _)
Reach(s, ids, depth) ==
    IF depth = 0 THEN ids
    ELSE LET next == ids \cup { e.target_id : e \in { m \in s.message : m.source_id \in ids } }
         IN IF next = ids THEN ids ELSE Reach(s, next, depth - 1)

\* ids of the nodes at the end of a path -[:MESSAGE*1..depth]-> from id
ReachFrom(s, id, depth) ==
    Reach(s, { e.target_id : e \in { m \in s.message : m.source_id = id } }, depth - 1)

\* Kuzu caps variable-length paths
KuzuMaxDepth == 30

\* KuzuGraphStore.get_trajectory_nodes
get_trajectory_nodes(s, node_id, max_depth) ==
    LET depth == Min(max_depth, KuzuMaxDepth)
        start == { u \in s.userTexts : u.id = node_id }
    IN IF start = {} THEN <<>>
       ELSE OrderByCreatedAt(
                { n \in MessageNodes(s) :
                    /\ n.id \in Reach(s, {node_id}, depth)
                    /\ n.conversation_id = (CHOOSE u \in start : TRUE).conversation_id })

\* ToolUse(tool_name=tu["name"], properties=tu["args"]) for each tool use
ToolUses(tool_uses) ==
    [i \in DOMAIN tool_uses |->
        [tool_name |-> tool_uses[i].name, properties |-> tool_uses[i].args]]

TrajectoryStep(node, tool_uses) ==
    [ node_id |-> node.id, node_type |-> node.label, text |-> node.text,
      conversation_id |-> node.conversation_id, created_at |-> node.created_at,
      tool_uses |-> tool_uses ]

\* the loop of HybridRetrievalStrategy._parse_trajectory
RECURSIVE parse_steps(_, _, _)
parse_steps(node_id, records, found_start) ==
    IF records = <<>> THEN <<>>
    ELSE LET node == Head(records)
         IN IF node.label = "UserText" /\ node.id = node_id
            THEN <<TrajectoryStep(node, <<>>)>> \o parse_steps(node_id, Tail(records), TRUE)
            ELSE IF node.label = "UserText" /\ found_start
            THEN <<TrajectoryStep(node, <<>>)>>
            ELSE IF ~found_start
            THEN parse_steps(node_id, Tail(records), FALSE)
            ELSE <<TrajectoryStep(node, ToolUses(node.tool_uses))>>
                    \o parse_steps(node_id, Tail(records), TRUE)

\* HybridRetrievalStrategy._parse_trajectory
parse_trajectory(node_id, records) == parse_steps(node_id, records, FALSE)

\* HybridRetrievalStrategy.get_trajectory
get_trajectory(s, node_id, max_depth) ==
    parse_trajectory(node_id, get_trajectory_nodes(s, node_id, max_depth))

\* mutant: a missing node raises instead of giving an empty context
get_node_context_strict(s, node_id, limit1) ==
    [ user_text |-> { [id |-> u.id, text |-> u.text, conversation_id |-> u.conversation_id]
                        : u \in { x \in s.userTexts : x.id = node_id } },
      agent_text |-> {}, tool_uses |-> {},
      error |-> ~ \E u \in s.userTexts : u.id = node_id ]

\* KuzuGraphStore.get_node_context.  The first query keeps one row
\* (_single); limit1 tells which when the UserText has several successors.
\* The second query gives one ToolUse for every TOOL_USE edge of a
\* successor and every Resource its ResourceVersion is a version of.
get_node_context(s, node_id, limit1) ==
    LET users == { u \in s.userTexts : u.id = node_id }
        agents == { a \in s.agentTexts :
                        \E m \in s.message : m.source_id = node_id /\ m.target_id = a.id }
        agent == IF limit1 = "oldest" THEN Oldest(agents) ELSE Latest(agents)
        rows == { x \in [a : agents, r : s.tool_use, v : s.resourceVersions] :
                        x.r.source_id = x.a.id /\ x.r.target_id = x.v.id }
        ResourcesOf(v) == { [id |-> res.id, uri |-> res.uri] :
                                res \in { y \in s.resources :
                                    \E e \in s.version_of :
                                        e.version_id = v.id /\ e.resource_id = y.id } }
        Optional(S) == IF S = {} THEN {{}} ELSE { {e} : e \in S }
    IN [ user_text |-> { [id |-> u.id, text |-> u.text,
                          conversation_id |-> u.conversation_id] : u \in users },
         agent_text |-> IF users = {} THEN {}
                        ELSE { [id |-> a.id, text |-> a.text] : a \in agent },
         tool_uses |-> IF users = {} THEN {}
                       ELSE UNION { { [ tool_name |-> x.r.tool_name,
                                        properties |-> x.r.properties,
                                        resource_version |-> [id |-> x.v.id, uri |-> x.v.uri,
                                                              content_hash |-> x.v.content_hash],
                                        resource |-> res ] : res \in Optional(ResourcesOf(x.v)) }
                                    : x \in rows },
         error |-> FALSE ]

\* HybridRetrievalStrategy.get_context
get_context(s, node_id, limit1) == get_node_context(s, node_id, limit1)

\* KuzuGraphStore.get_resource_conversations with sort_by = "created_at":
\* MATCH (u:UserText)-[:MESSAGE*1..30]->(a:AgentText)-[r:TOOL_USE]->
\*       (v:ResourceVersion)-[:VERSION_OF]->(res:Resource) WHERE res.uri = $uri
\* [AND u.conversation_id <> $exclude_cid] RETURN DISTINCT ... ORDER BY ... LIMIT
get_resource_conversations(s, uri, limit, sort_order, exclude_conversation_id) ==
    LET rows == { [ conversation_id |-> x.u.conversation_id, user_text_id |-> x.u.id,
                    user_text |-> x.u.text, agent_text |-> x.a.text,
                    created_at |-> x.u.created_at ] :
                  x \in { y \in [u : s.userTexts, a : s.agentTexts] :
                            /\ y.a.id \in ReachFrom(s, y.u.id, KuzuMaxDepth)
                            /\ \E r \in s.tool_use, e \in s.version_of, res \in s.resources :
                                  /\ r.source_id = y.a.id /\ r.target_id = e.version_id
                                  /\ e.resource_id = res.id /\ res.uri = uri
                            /\ exclude_conversation_id # NoId =>
                                  y.u.conversation_id # exclude_conversation_id } }
        ascending == OrderByCreatedAt(rows)
    IN Take(IF sort_order = "desc" THEN Reverse(ascending) ELSE ascending, limit)

\* HybridRetrievalStrategy.get_conversations_for_resource
get_conversations_for_resource(s, uri, limit, sort_order, exclude_conversation_id) ==
    get_resource_conversations(s, uri, limit, sort_order, exclude_conversation_id)

(***************************************************************************)
(* Specification: messages are added one by one and the graph is queried   *)
(* in between.                                                             *)
(***************************************************************************)
RetrMessages ==
    { UserMsg("Hi"), AssistantMsg("Hello", <<ReadA>>), ToolMsg("AAA", "c1"),
      ToolMsg("AAA", NoId), SystemMsg("sys") }

\* ids asked for: every message node, and an id no node has
QueryIds == { n.id : n \in userTexts \cup agentTexts } \cup {0}

\* URIs asked for: the one ReadA reads, and one no tool call names
QueryUris == { "file:///tmp/a", "file:///tmp/none" }

\* values of config.trajectory_max_depth
TrajectoryDepths == {1, 100}

\* a retrieval call returned `r`; the stores are as the call left them
Answer(r) ==
    /\ reply' = r
    /\ UnchangedStore
    /\ UNCHANGED <<callLog, twin, tasks, ghost>>

GetContext ==
    \E node_id \in QueryIds, limit1 \in LimitOnePolicies :
      /\ Answer([call |-> "get_context", node_id |-> node_id,
                 result |-> get_context(Store, node_id, limit1)])
      /\ Untouched

GetTrajectory ==
    \E node_id \in QueryIds, max_depth \in TrajectoryDepths :
      /\ Answer([call |-> "get_trajectory", node_id |-> node_id,
                 max_depth |-> max_depth,
                 steps |-> get_trajectory(Store, node_id, max_depth)])
      /\ Untouched

GetConversationsForResource ==
    \E uri \in QueryUris, limit \in 1..MaxLimit, sort_order \in {"asc", "desc"},
       exclude_conversation_id \in Conversations \cup {NoId} :
      /\ Answer([call |-> "get_conversations_for_resource", uri |-> uri,
                 limit |-> limit, exclude_conversation_id |-> exclude_conversation_id,
                 references |-> get_conversations_for_resource(
                                    Store, uri, limit, sort_order, exclude_conversation_id)])
      /\ Untouched

NextRetrieval ==
    \/ AddMessageReply(RetrMessages, MaxRetrNodes)
    \/ GetContext
    \/ GetTrajectory
    \/ GetConversationsForResource

SpecRetrieval == Init /\ [][NextRetrieval]_vars

(***************************************************************************)
(* Search.  The hybrid query of the vector table and its reranker decide   *)
(* the order and the relevance scores of the rows: a ranking is any order  *)
(* of the rows of the table with any scores.                               *)
(***************************************************************************)
Scores == 1..MaxScore

\* conversation_id is any str: the empty string is an id like another
SearchConversations == Conversations \cup {""}

\* exclude_conversation_id is "str | None"; NoExclude is its None
NoExclude == "<None>"

\* "if exclude_conversation_id:" is the truth value of the argument:
\* None and the empty string are false
Truthy(x) == x # NoExclude /\ x # ""

Rankings ==
    LET n == Cardinality(vectors)
    IN { [i \in 1..n |-> [row |-> order[i], score |-> score[i]]] :
            order \in { f \in [1..n -> vectors] : \A i, j \in 1..n : i # j => f[i] # f[j] },
            score \in [1..n -> Scores] }

VectorSearchResult(ranked) ==
    [ node_id |-> ranked.row.node_id, text |-> ranked.row.text,
      conversation_id |-> ranked.row.conversation_id, score |-> ranked.score ]

\* LanceDBVectorStore.search
vector_search(ranking, limit, exclude_conversation_id) ==
    LET results == Take(ranking, limit * 2)
        Kept(r) == r.row.conversation_id # exclude_conversation_id
        filtered == IF Truthy(exclude_conversation_id)
                    THEN SelectSeq(results, Kept) ELSE results
        head == Take(filtered, limit)
    IN [i \in DOMAIN head |-> VectorSearchResult(head[i])]

\* mutant: the first row of a conversation is kept whatever its score
RECURSIVE dedupe_keep_first(_, _)
dedupe_keep_first(vector_results, deduped) ==
    IF vector_results = <<>> THEN deduped
    ELSE LET vr == Head(vector_results)
         IN IF \E i \in DOMAIN deduped : deduped[i].conversation_id = vr.conversation_id
            THEN dedupe_keep_first(Tail(vector_results), deduped)
            ELSE dedupe_keep_first(Tail(vector_results), Append(deduped, vr))

\* the loop "for vr in vector_results" of search under unique_conversations
RECURSIVE dedupe(_, _)
dedupe(vector_results, deduped) ==
    IF vector_results = <<>> THEN deduped
    ELSE LET vr == Head(vector_results)
             seen == { i \in DOMAIN deduped :
                         deduped[i].conversation_id = vr.conversation_id }
         IN IF seen = {}
            THEN dedupe(Tail(vector_results), Append(deduped, vr))
            ELSE IF vr.score > deduped[CHOOSE i \in seen : TRUE].score
            THEN dedupe(Tail(vector_results),
                        [deduped EXCEPT ![CHOOSE i \in seen : TRUE] = vr])
            ELSE dedupe(Tail(vector_results), deduped)

\* HybridRetrievalStrategy.search up to the touch: the rows fetched from
\* the vector store and the results built from them
search(ranking, limit, exclude_conversation_id, unique_conversations) ==
    LET fetch_limit == IF unique_conversations THEN limit * 3 ELSE limit
        vector_results == vector_search(ranking, fetch_limit, exclude_conversation_id)
    IN [ fetched |-> vector_results,
         results |-> IF unique_conversations
                     THEN Take(dedupe(vector_results, <<>>), limit)
                     ELSE vector_results ]

\* KuzuGraphStore.update_last_accessed: SET n.last_accessed_at = $now on
\* the nodes of the four tables that carry one of the ids
graph_update_last_accessed(marks, s, node_ids, now) ==
    LET known == { n.id : n \in s.userTexts \cup s.agentTexts
                                \cup s.resourceVersions \cup s.resources }
        hit == { node_ids[i] : i \in DOMAIN node_ids } \cap known
    IN [id \in DOMAIN marks \cup hit |-> IF id \in hit THEN now ELSE marks[id]]

\* LanceDBVectorStore.update_last_accessed, once for each of node_ids
vector_update_last_accessed(marks, s, node_ids, now) ==
    LET hit == { node_ids[i] : i \in DOMAIN node_ids }
                    \cap { v.node_id : v \in s.vectors }
    IN [id \in DOMAIN marks \cup hit |-> IF id \in hit THEN now ELSE marks[id]]

\* Where the touch of `results` can raise: nowhere, in the graph store
\* or in the vector store, after `done` of the ids were written there.
TouchFailures(results) ==
    {[store |-> "none", done |-> Len(results)]}
        \cup [store : {"graph", "vector"}, done : 0..(Len(results) - 1)]

SearchMessages == { UserMsg("Hi") }

\* search is called.  An exception of a store call leaves search through
\* "await": nothing is returned.
Search ==
    \E limit \in 1..MaxLimit,
       exclude_conversation_id \in SearchConversations \cup {NoExclude},
       unique_conversations \in BOOLEAN, ranking \in Rankings :
      /\ touches < MaxTouches
      /\ \E found \in {search(ranking, limit, exclude_conversation_id,
                              unique_conversations)} :
           \E failure \in TouchFailures(found.results) :
             LET node_ids == [i \in DOMAIN found.results |-> found.results[i].node_id]
                 now == touches + 1
                 in_graph == IF failure.store = "graph"
                             THEN Take(node_ids, failure.done) ELSE node_ids
                 in_vector == IF failure.store = "graph" THEN <<>>
                              ELSE Take(node_ids, failure.done)
             IN /\ Answer([ call |-> "search", limit |-> limit,
                            exclude_conversation_id |-> exclude_conversation_id,
                            unique_conversations |-> unique_conversations,
                            fetched |-> found.fetched, found |-> found.results,
                            failed |-> failure.store,
                            error |-> failure.store # "none",
                            results |-> IF failure.store = "none"
                                        THEN found.results ELSE <<>> ])
                /\ IF found.results = <<>>
                   THEN Untouched
                   ELSE /\ last_accessed_at' =
                             graph_update_last_accessed(last_accessed_at, Store, in_graph, now)
                        /\ last_accessed' =
                             vector_update_last_accessed(last_accessed, Store, in_vector, now)
                        /\ touches' = now
                        /\ UNCHANGED <<namespace, scratch>>

NextSearch ==
    \/ AddMessageIn(SearchConversations, SearchMessages, MaxSearchNodes)
    \/ Search

SpecSearch == Init /\ [][NextSearch]_vars

(***************************************************************************)
(* The vector store called with a vector_weight.  A query fixes two        *)
(* orders of the rows, by text match alone and by vector distance alone;   *)
(* the reranker that the store was constructed with combines the two       *)
(* result lists into the ranking of the hybrid query.                      *)
(***************************************************************************)
\* vector_weight in tenths: 0.0, the default 0.7, and 1.0
VectorWeights == {0, 7, 10}

\* the orders of the rows of the table
RowOrders ==
    LET n == Cardinality(vectors)
    IN { f \in [1..n -> vectors] : \A i, j \in 1..n : i # j => f[i] # f[j] }

\* the position of a row in an order of the rows
Position(order, row) == CHOOSE i \in DOMAIN order : order[i] = row

\* What the rerankers of the registry (reciprocal rank fusion, linear
\* combination) give for two result lists: a row that both lists put
\* before another stays before it.
Reranked(ranking, lexical, dense) ==
    LET combined == [i \in DOMAIN ranking |-> ranking[i].row]
    IN \A a, b \in vectors :
          (/\ Position(lexical, a) < Position(lexical, b)
           /\ Position(dense, a) < Position(dense, b))
              => Position(combined, a) < Position(combined, b)

\* LanceDBVectorStore.search: vector_weight is a parameter that the
\* query built on the table does not receive
vector_search_weighted(ranking, limit, exclude_conversation_id, vector_weight) ==
    vector_search(ranking, limit, exclude_conversation_id)

\* LanceDBVectorStore.search is called
VectorSearch ==
    \E limit \in 1..MaxLimit, vector_weight \in VectorWeights,
       ranking \in Rankings, lexical \in RowOrders, dense \in RowOrders :
      /\ Reranked(ranking, lexical, dense)
      /\ Answer([ call |-> "vector_search", limit |-> limit,
                  vector_weight |-> vector_weight,
                  lexical |-> [i \in DOMAIN lexical |-> lexical[i].node_id],
                  dense |-> [i \in DOMAIN dense |-> dense[i].node_id],
                  results |-> vector_search_weighted(ranking, limit, NoExclude,
                                                     vector_weight) ])
      /\ Untouched

NextWeight ==
    \/ AddMessageIn(SearchConversations, SearchMessages, MaxWeightNodes)
    \/ VectorSearch

SpecWeight == Init /\ [][NextWeight]_vars

(***************************************************************************)
(* The Neo4j graph store with a namespace.  Its queries match the same     *)
(* patterns as the queries of the Kuzu store; what is modelled here is     *)
(* where self._namespace enters them.  The two instances use different     *)
(* conversation ids, so that the lookups of the message chain, which       *)
(* filter on conversation_id and on the namespace, find the same rows as   *)
(* the lookups on conversation_id alone.                                   *)
(***************************************************************************)
NsConversation(ns) == IF ns = "nsA" THEN "cA" ELSE "cB"

NsMessages ==
    { UserMsg("Hi"), AssistantMsg("Hello", <<ReadA>>), ToolMsg("AAA", "c1") }

NodeIdsOf(s) ==
    { n.id : n \in s.userTexts \cup s.agentTexts \cup s.resourceVersions \cup s.resources }

\* the create queries: "SET n.namespace = $namespace" on the node created
ns_set_clause(tags, s, t, ns) ==
    [id \in NodeIdsOf(t) |-> IF id \in NodeIdsOf(s) THEN tags[id] ELSE ns]

\* Neo4jGraphStore.get_resource_by_uri: MATCH (r:Resource {uri: $uri})
neo_get_resource_by_uri(s, ns, uri) == { r \in s.resources : r.uri = uri }

\* Neo4jGraphStore.get_node_context: MATCH (u:UserText {id: $id})
neo_get_node_context(s, ns, node_id, limit1) == get_node_context(s, node_id, limit1)

\* Neo4jGraphStore.get_resource_conversations
neo_get_resource_conversations(s, ns, uri, limit, sort_order, exclude_conversation_id) ==
    get_resource_conversations(s, uri, limit, sort_order, exclude_conversation_id)

\* Neo4jGraphStore.get_trajectory_nodes
neo_get_trajectory_nodes(s, ns, node_id, max_depth) ==
    get_trajectory_nodes(s, node_id, max_depth)

\* add_message on the instance of namespace ns
NsAddMessage ==
    \E ns \in Namespaces, msg \in NsMessages :
      /\ Room(<<msg>>, MaxNsNodes)
      /\ \E limit1 \in Policies(<<msg>>) :
            \E t \in {add_message([Store EXCEPT !.tool_results = scratch[ns]],
                                   NsConversation(ns), msg, limit1)} :
              /\ ~t.error
              /\ userTexts' = t.userTexts /\ agentTexts' = t.agentTexts
              /\ resourceVersions' = t.resourceVersions /\ resources' = t.resources
              /\ message' = t.message /\ version_of' = t.version_of
              /\ tool_use' = t.tool_use /\ vectors' = t.vectors /\ clock' = t.clock
              /\ scratch' = [scratch EXCEPT ![ns] = t.tool_results]
              /\ namespace' = ns_set_clause(namespace, Store, t, ns)
              /\ callLog' = t.callLog
              /\ reply' = [call |-> "neo_add_message", namespace |-> ns, returned |-> {}]
              /\ UNCHANGED <<tool_results, tasks, ghost, twin>>
              /\ Unaccessed

\* a lookup or retrieval call of the store of namespace ns answers with
\* the nodes of these ids
NsAnswer(call, ns, returned) ==
    /\ Answer([call |-> call, namespace |-> ns, returned |-> returned])
    /\ Untouched

NsGetResourceByUri ==
    \E ns \in Namespaces, uri \in QueryUris :
        NsAnswer("get_resource_by_uri", ns,
                 { r.id : r \in neo_get_resource_by_uri(Store, ns, uri) })

NsGetNodeContext ==
    \E ns \in Namespaces, node_id \in QueryIds, limit1 \in LimitOnePolicies :
        \E context \in {neo_get_node_context(Store, ns, node_id, limit1)} :
            NsAnswer("get_node_context", ns,
                     { n.id : n \in context.user_text \cup context.agent_text }
                        \cup { u.resource_version.id : u \in context.tool_uses }
                        \cup UNION { { r.id : r \in u.resource } : u \in context.tool_uses })

NsGetResourceConversations ==
    \E ns \in Namespaces, uri \in QueryUris, limit \in 1..MaxLimit :
        \E rows \in {neo_get_resource_conversations(Store, ns, uri, limit, "desc", NoId)} :
            NsAnswer("get_resource_conversations", ns,
                     { rows[i].user_text_id : i \in DOMAIN rows })

NsGetTrajectoryNodes ==
    \E ns \in Namespaces, node_id \in QueryIds, max_depth \in TrajectoryDepths :
        \E records \in {neo_get_trajectory_nodes(Store, ns, node_id, max_depth)} :
            NsAnswer("get_trajectory_nodes", ns,
                     { records[i].id : i \in DOMAIN records })

NextNamespace ==
    \/ NsAddMessage
    \/ NsGetResourceByUri
    \/ NsGetNodeContext
    \/ NsGetResourceConversations
    \/ NsGetTrajectoryNodes

SpecNamespace == Init /\ [][NextNamespace]_vars

(***************************************************************************)
(* A trajectory imported again.  get_trajectory returns TrajectorySteps,   *)
(* import_trace takes Messages: the messages handed to import_trace are    *)
(* any list that can be written from the steps, one message for a step,    *)
(* with the text of the step and a tool call for each of its ToolUses.     *)
(* A ToolUse holds tool_name and properties only, so the id of a tool call *)
(* is a guess; tool messages can be added, their content taken from the    *)
(* texts of the steps.                                                     *)
(***************************************************************************)
\* a TraceMem instance over empty stores
EmptyStore ==
    [ userTexts |-> {}, agentTexts |-> {}, resourceVersions |-> {}, resources |-> {},
      message |-> {}, version_of |-> {}, tool_use |-> {}, vectors |-> {},
      tool_results |-> <<>>, clock |-> 0, callLog |-> <<>>, error |-> FALSE ]

RoundTripIds == {NoId, "c1"}

\* the tool calls that can be written from the ToolUses of a step
CallsOf(tool_uses) ==
    { [i \in DOMAIN tool_uses |->
          [id |-> ids[i], name |-> tool_uses[i].tool_name,
           args |-> tool_uses[i].properties]] :
      ids \in [DOMAIN tool_uses -> RoundTripIds] }

\* the messages that can be written from a TrajectoryStep
MessagesOf(trajectory_step) ==
    IF trajectory_step.node_type = "UserText"
    THEN { UserMsg(trajectory_step.text) }
    ELSE { AssistantMsg(trajectory_step.text, calls) :
                calls \in CallsOf(trajectory_step.tool_uses) }

\* the message lists that can be written from the steps of a trajectory
TraceOf(steps) ==
    LET lists == { f \in [DOMAIN steps -> UNION { MessagesOf(steps[i]) : i \in DOMAIN steps }] :
                        \A i \in DOMAIN steps : f[i] \in MessagesOf(steps[i]) }
        results == { <<ToolMsg(steps[i].text, "c1")>> : i \in DOMAIN steps } \cup {<<>>}
    IN { r \o f : r \in results, f \in lists }

\* the number of nodes of s created before the node of this id
Rank(s, id) == Cardinality({ n \in NodeIdsOf(s) : n < id })

\* the graph of s up to ids and timestamps: a node is named by its rank
\* in the order of creation, an edge by the nodes it joins
Shape(s) ==
    [ userTexts |-> { [node |-> Rank(s, n.id), text |-> n.text,
                       conversation_id |-> n.conversation_id,
                       turn_index |-> n.turn_index] : n \in s.userTexts },
      agentTexts |-> { [node |-> Rank(s, n.id), text |-> n.text,
                        conversation_id |-> n.conversation_id,
                        turn_index |-> n.turn_index,
                        tool_uses |-> n.tool_uses] : n \in s.agentTexts },
      resourceVersions |-> { [node |-> Rank(s, n.id), uri |-> n.uri,
                              content_hash |-> n.content_hash,
                              conversation_id |-> n.conversation_id]
                                : n \in s.resourceVersions },
      resources |-> { [node |-> Rank(s, n.id), uri |-> n.uri,
                       current_content_hash |-> n.current_content_hash,
                       conversation_id |-> n.conversation_id] : n \in s.resources },
      message |-> { <<Rank(s, e.source_id), Rank(s, e.target_id)>> : e \in s.message },
      version_of |-> { <<Rank(s, e.version_id), Rank(s, e.resource_id)>>
                            : e \in s.version_of },
      tool_use |-> { [source |-> Rank(s, e.source_id), target |-> Rank(s, e.target_id),
                      tool_name |-> e.tool_name, properties |-> e.properties]
                            : e \in s.tool_use } ]

RoundTripMessages ==
    { UserMsg("Hi"), AssistantMsg("Hello", <<>>), AssistantMsg("Hello", <<ReadA>>),
      ToolMsg("AAA", "c1") }

\* get_trajectory(start) is called on a graph that the trajectory covers
\* whole, so that no context precedes it, and a list written from its
\* steps is handed to import_trace on an instance over empty stores
RoundTrip ==
    \E start \in { u.id : u \in userTexts }, limit1 \in LimitOnePolicies :
      \E steps \in {get_trajectory(Store, start, 100)} :
        /\ { steps[i].node_id : i \in DOMAIN steps } = { n.id : n \in MessageNodes(Store) }
        /\ \E messages \in TraceOf(steps) :
              \E t \in {import_trace(EmptyStore, "cA", messages, limit1)} :
                /\ ~t.error
                /\ Answer([call |-> "round_trip", start |-> start, messages |-> messages,
                           imported |-> Shape(t)])
                /\ Untouched

NextRoundTrip ==
    \/ AddMessageIn({"cA"}, RoundTripMessages, MaxRoundTripNodes)
    \/ RoundTrip

SpecRoundTrip == Init /\ [][NextRoundTrip]_vars

(***************************************************************************)
(* Specification of tool names: add_message is called with tool calls      *)
(* whose names the graph store turns into relationship types, and a call   *)
(* that raised is kept with what it had written before the exception.      *)
(***************************************************************************)
\* a tool that is named "message" and reads a file
MessageTool == [id |-> "c1", name |-> "message", args |-> ArgsPathA]

ToolNameMessages ==
    { UserMsg("Hi"), ToolMsg("AAA", "c1"),
      AssistantMsg("Hello", <<ReadA>>), AssistantMsg("Hello", <<MessageTool>>) }

\* the tool calls of a message that _process_tool_call does not skip: a
\* resource URI is extracted and a result is in the scratch map
Resolvable(s, msg) ==
    { i \in DOMAIN msg.tool_calls :
        /\ extract(msg.tool_calls[i].name, msg.tool_calls[i].args) # NoUri
        /\ recorded_result(s, msg.tool_calls[i]) # {} }

\* add_message returns or raises; the writes made before an exception stay
AddMessageOutcome(msgs, MaxNodes) ==
    \E conversation_id \in Conversations, msg \in msgs :
      /\ Room(<<msg>>, MaxNodes)
      /\ \E limit1 \in Policies(<<msg>>) :
            \E t \in {add_message(Store, conversation_id, msg, limit1)} :
              /\ StoreBecomes(t)
              /\ callLog' = t.callLog
              /\ reply' = [call |-> "add_message_outcome",
                           conversation_id |-> conversation_id,
                           message |-> msg,
                           raised |-> t.error,
                           resolvable |-> Resolvable(Store, msg),
                           tool_use |-> t.tool_use \ tool_use]
              /\ UNCHANGED <<tasks, ghost, twin>>
              /\ Untouched

NextToolName == AddMessageOutcome(ToolNameMessages, MaxToolNameNodes)

SpecToolName == Init /\ [][NextToolName]_vars

(***************************************************************************)
(* Specification of a graph's lifetime: messages that read a resource      *)
(* whose content changes are added, and every retrieval operation is       *)
(* called on what they built.                                              *)
(***************************************************************************)
LifeMessages ==
    { UserMsg("Hi"), AssistantMsg("Hello", <<ReadA>>),
      ToolMsg("AAA", "c1"), ToolMsg("BBB", "c1") }

NextLifetime ==
    \/ AddMessageIn({"cA"}, LifeMessages, MaxLifeNodes)
    \/ Search
    \/ GetContext
    \/ GetTrajectory
    \/ GetConversationsForResource

SpecLifetime == Init /\ [][NextLifetime]_vars

(***************************************************************************)
(* Specification of recovery: add_message calls are made one after the     *)
(* other, a call may end with an exception at any of its suspension        *)
(* points, and what a _process_tool_call that returned had been asked is   *)
(* kept.                                                                   *)
(***************************************************************************)
RecoveryMessages ==
    { AssistantMsg("Hello", <<ReadA>>), ToolMsg("AAA", "c1"), ToolMsg("BBB", "c1") }

\* add_message is called while no other call is in flight
StartAlone(msgs, MaxNodes) ==
    /\ \A i \in Slots : tasks[i].pc = "idle"
    /\ StartAddMessage(msgs, MaxNodes)

\* the steps at which _process_tool_call returns past its early returns
Returning == {"get_resource_version_by_hash", "create_tool_edge"}

\* a call in flight runs its next step; the return of _process_tool_call
\* is kept with the URI and the hash it worked on
StepLogged ==
    \E j \in Slots :
      /\ tasks[j].pc # "idle"
      /\ \E limit1 \in IF tasks[j].pc = "get_resource_version_by_hash"
                       THEN LimitOnePolicies ELSE {"oldest"} :
            \E r \in {step(Store, tasks[j], limit1)},
               g \in {ghost_step(ghost, j, tasks[j])} :
               \E ended \in {r.s.error \/ r.k.pc = "idle"} :
                 /\ StoreBecomes(r.s)
                 /\ tasks' = [tasks EXCEPT ![j] = IF ended THEN IdleTask ELSE r.k]
                 /\ ghost' = IF ended THEN ghost_retire(g, j) ELSE g
                 /\ callLog' = IF tasks[j].pc = "begin_tool_call"
                               THEN ToolCallLog(Store, ghost, j, tasks[j]) ELSE <<>>
                 /\ reply' = IF /\ tasks[j].pc \in Returning
                                /\ ~r.s.error
                                /\ r.k.pc \in {"begin_tool_call", "idle"}
                             THEN [ call |-> "process_tool_call",
                                    agent_id |-> (CHOOSE a \in tasks[j].node : TRUE).id,
                                    conversation_id |-> tasks[j].conversation_id,
                                    uri |-> tasks[j].uri,
                                    content_hash |-> tasks[j].content_hash ]
                             ELSE NoReply
                 /\ UNCHANGED twin
                 /\ Untouched

NextRecovery ==
    \/ StartAlone(RecoveryMessages, MaxRecoveryNodes)
    \/ StepLogged
    \/ Fail

SpecRecovery == Init /\ [][NextRecovery]_vars

(***************************************************************************)
(* Specification of interleaved reads: add_message calls of the            *)
(* conversations run concurrently and every call runs to its return.       *)
(***************************************************************************)
InterleavedResults == { ToolMsg("AAA", "c1"), ToolMsg("BBB", "c1") }
InterleavedReads == { AssistantMsg("Hello", <<ReadA>>) }

\* each caller has a conversation of its own
ConversationOf(j) == IF j = 1 THEN "cA" ELSE "cB"

\* add_message is called by caller j for its conversation
StartRead(msgs, MaxNodes) ==
    \E j \in Slots, msg \in msgs :
      /\ tasks[j].pc = "idle"
      /\ AsyncRoom(<<msg>>, MaxNodes)
      /\ tasks' = [tasks EXCEPT ![j] =
                        new_task("add_message", ConversationOf(j), <<msg>>)]
      /\ ghost' = [ghost EXCEPT !.seen[j] = ghost.posted]
      /\ callLog' = <<>>
      /\ UnchangedStore
      /\ UNCHANGED <<twin, reply>>
      /\ Untouched

\* a tool message is added in one step (its branch of add_message has no
\* suspension point); the assistant messages that read the resource run
\* step by step
NextInterleaved ==
    \/ AddMessageIn({"cA"}, InterleavedResults, MaxInterleavedNodes)
    \/ StartRead(InterleavedReads, MaxInterleavedNodes)
    \/ Step

SpecInterleaved == Init /\ [][NextInterleaved]_vars

(***************************************************************************)
(* Vocabulary of the properties                                            *)
(***************************************************************************)
AllMessageNodes == userTexts \cup agentTexts
ConvNodes(c) == { n \in AllMessageNodes : n.conversation_id = c }
TurnNodes(c, t) == { n \in ConvNodes(c) : n.turn_index = t }
Turns(c) == { n.turn_index : n \in ConvNodes(c) }
NodeById(i) == CHOOSE n \in AllMessageNodes : n.id = i

\* n1 and n2 are adjacent in created_at order within their conversation
Adjacent(n1, n2) ==
    /\ n1.conversation_id = n2.conversation_id
    /\ n1.created_at < n2.created_at
    /\ ~\E m \in ConvNodes(n1.conversation_id) :
            n1.created_at < m.created_at /\ m.created_at < n2.created_at

MessageEdgesBetween(n1, n2) ==
    { e \in message : e.source_id = n1.id /\ e.target_id = n2.id }

\* an AgentText that opens its turn: no node of the same turn precedes it
OpensTurnAsAssistant(n) ==
    /\ n.label = "AgentText"
    /\ ~\E m \in TurnNodes(n.conversation_id, n.turn_index) : m.created_at < n.created_at

AssistantFirst(c) ==
    \E n \in ConvNodes(c) :
        /\ n.label = "AgentText"
        /\ \A m \in ConvNodes(c) : n.created_at <= m.created_at

(***************************************************************************)
(* C1  Turn monotonicity: in every conversation, a node created later      *)
(* never has a smaller turn_index than a node created earlier.             *)
(***************************************************************************)
C1_TurnMonotonic ==
    \A c \in Conversations : \A n1, n2 \in ConvNodes(c) :
        n1.created_at < n2.created_at => n1.turn_index <= n2.turn_index

\* a conversation mixing roles over two turns, beside a second conversation
C1_Witness ==
    /\ \E u \in userTexts, a \in agentTexts :
          /\ u.conversation_id = "cA" /\ a.conversation_id = "cA"
          /\ u.turn_index = 1 /\ a.turn_index = 1 /\ u.created_at < a.created_at
          /\ \E a0 \in agentTexts :
                a0.conversation_id = "cA" /\ a0.turn_index = 0
    /\ ConvNodes("cB") # {}

(***************************************************************************)
(* C2  Single user per turn: every turn index that occurs in a             *)
(* conversation has exactly one UserText, except turn 0 of a conversation  *)
(* whose first message was an assistant message, which holds only          *)
(* AgentTexts.                                                             *)
(***************************************************************************)
C2_SingleUserPerTurn ==
    \A c \in Conversations : \A t \in Turns(c) :
        LET users == { u \in userTexts : u.conversation_id = c /\ u.turn_index = t }
        IN IF t = 0 /\ AssistantFirst(c)
           THEN users = {}
           ELSE Cardinality(users) = 1

\* an assistant-first conversation that later got a user turn, and a
\* user-first conversation with two user turns
C2_Witness ==
    /\ AssistantFirst("cA") /\ \E u \in userTexts : u.conversation_id = "cA"
    /\ ~AssistantFirst("cB")
    /\ Cardinality({ u \in userTexts : u.conversation_id = "cB" }) = 2

(***************************************************************************)
(* C3  Chain completeness.  As claimed: every two nodes of a conversation  *)
(* adjacent in created_at order are linked by a MessageEdge from the       *)
(* earlier to the later, except across an AgentText that opens its turn.   *)
(* The code links a new UserText only from the latest AgentText, so this   *)
(* fails for a user message that directly follows a user message.          *)
(***************************************************************************)
C3_ChainComplete_AsClaimed ==
    \A n1, n2 \in AllMessageNodes :
        (Adjacent(n1, n2) /\ ~OpensTurnAsAssistant(n2))
            => MessageEdgesBetween(n1, n2) # {}

\* C3 amended: every two adjacent nodes are linked from the earlier to the
\* later, except a UserText that directly follows a UserText (and except
\* across an AgentText that opens its turn).
C3_ChainComplete ==
    \A n1, n2 \in AllMessageNodes :
        ( /\ Adjacent(n1, n2)
          /\ ~OpensTurnAsAssistant(n2)
          /\ ~(n1.label = "UserText" /\ n2.label = "UserText") )
            => MessageEdgesBetween(n1, n2) # {}

\* one conversation holding user->user, user->agent, agent->user adjacencies
C3_Witness ==
    \E u1, u2, u3 \in userTexts, a \in agentTexts :
        /\ Adjacent(u1, u2) /\ Adjacent(u2, a) /\ Adjacent(a, u3)
        /\ MessageEdgesBetween(u1, u2) = {}

(***************************************************************************)
(* C4  Cross-turn edges: every MessageEdge that crosses turns goes from    *)
(* the last AgentText of turn n to the UserText of turn n+1, and no        *)
(* AgentText has two outgoing MessageEdges to UserTexts.                   *)
(***************************************************************************)
C4_CrossTurnEdges ==
    /\ \A e \in message :
        LET src == NodeById(e.source_id)
            tgt == NodeById(e.target_id)
        IN src.turn_index # tgt.turn_index =>
            /\ src.label = "AgentText" /\ tgt.label = "UserText"
            /\ tgt.turn_index = src.turn_index + 1
            /\ \A a \in agentTexts :
                 (a.conversation_id = src.conversation_id /\ a.turn_index = src.turn_index)
                    => a.created_at <= src.created_at
    /\ \A a \in agentTexts :
        Cardinality({ e \in message :
                        e.source_id = a.id /\ NodeById(e.target_id).label = "UserText" }) <= 1

(***************************************************************************)
(* C5  Intra-turn chain: within each turn the MessageEdges form a single   *)
(* path in creation order, the UserText (if any) first, then each          *)
(* AgentText, ending at the most recently created node of the turn.        *)
(***************************************************************************)
C5_TurnPath ==
    \A c \in Conversations : \A t \in Turns(c) :
        \A n1, n2 \in TurnNodes(c, t) :
            /\ (n1.label = "UserText" /\ n2.label = "AgentText")
                    => n1.created_at < n2.created_at
            /\ Cardinality(MessageEdgesBetween(n1, n2)) =
                    IF /\ n1.created_at < n2.created_at
                       /\ ~\E m \in TurnNodes(c, t) :
                            n1.created_at < m.created_at /\ m.created_at < n2.created_at
                    THEN 1 ELSE 0

\* a turn of three nodes (UserText and two AgentTexts) after an earlier turn
C5_Witness ==
    \E u \in userTexts, a1, a2 \in agentTexts :
        /\ u.turn_index = 1
        /\ {a1, a2} \subseteq TurnNodes(u.conversation_id, 1)
        /\ a1.created_at < a2.created_at
        /\ MessageEdgesBetween(a1, a2) # {}

(***************************************************************************)
(* C6  Resource uniqueness: for every canonical URI at most one Resource   *)
(* exists.                                                                 *)
(***************************************************************************)
C6_ResourceUnique ==
    \A r1, r2 \in resources : r1.uri = r2.uri => r1 = r2

\* two URIs each with its Resource, one of them read from both conversations
C6_Witness ==
    /\ Cardinality(resources) = 2
    /\ \E r \in resources, e1, e2 \in tool_use, v1, v2 \in resourceVersions :
          /\ e1.target_id = v1.id /\ e2.target_id = v2.id
          /\ v1.uri = r.uri /\ v2.uri = r.uri
          /\ e1.conversation_id = "cA" /\ e2.conversation_id = "cB"

(***************************************************************************)
(* C7  Version identity: for every pair (uri, content_hash) at most one    *)
(* ResourceVersion exists, whatever the order in which contents of that    *)
(* URI were observed.                                                      *)
(***************************************************************************)
C7_VersionIdentity ==
    \A v1, v2 \in resourceVersions :
        (v1.uri = v2.uri /\ v1.content_hash = v2.content_hash) => v1 = v2

(***************************************************************************)
(* C8  Hash monotonicity: every Resource's current_content_hash equals the *)
(* content_hash of the most recently created ResourceVersion of its URI.   *)
(***************************************************************************)
C8_HashMonotonic ==
    \A r \in resources :
        LET latest == Latest({ v \in resourceVersions : v.uri = r.uri })
        IN /\ latest # {}
           /\ \A v \in latest : r.current_content_hash = v.content_hash

\* a Resource whose content changed: two versions with different hashes
C8_Witness ==
    \E r \in resources, v1, v2 \in resourceVersions :
        /\ v1.uri = r.uri /\ v2.uri = r.uri
        /\ v1.content_hash # v2.content_hash
        /\ v1.created_at < v2.created_at
        /\ r.created_at < v1.created_at

(***************************************************************************)
(* C9  Version lineage: every ResourceVersion has exactly one outgoing     *)
(* VersionOfEdge, and it points to the Resource with the same URI.         *)
(***************************************************************************)
C9_VersionLineage ==
    \A v \in resourceVersions :
        LET out == { e \in version_of : e.version_id = v.id }
        IN /\ Cardinality(out) = 1
           /\ \A e \in out : \E r \in resources : r.id = e.resource_id /\ r.uri = v.uri

\* versions of two different URIs, one of them a later version of its URI
C9_Witness ==
    \E v1, v2, v3 \in resourceVersions :
        /\ v1.uri # v2.uri
        /\ v3.uri = v1.uri /\ v3.id # v1.id
        /\ \E e \in version_of : e.version_id = v3.id

(***************************************************************************)
(* C10  Unchanged content: a tool call whose result hash equals the        *)
(* existing Resource's current_content_hash creates no Resource, no        *)
(* ResourceVersion and no VersionOfEdge, and exactly one ToolUseEdge, from *)
(* the new AgentText to a ResourceVersion that already existed for that    *)
(* URI and hash; also when the read happens in another conversation.       *)
(***************************************************************************)
SameHashRead(call) ==
    /\ call.uri # NoUri
    /\ call.content # {}
    /\ call.hash_before = { compute_content_hash(c) : c \in call.content }

C10_SameHashRead ==
    \A i \in DOMAIN callLog :
        LET call == callLog[i]
        IN SameHashRead(call) =>
            /\ call.new_resources = {}
            /\ call.new_versions = {}
            /\ call.new_version_of = {}
            /\ Cardinality(call.new_tool_use) = 1
            /\ \A e \in call.new_tool_use :
                /\ e.source_id = call.agent_id
                /\ e.target_id \in call.versions_before
                /\ \E v \in resourceVersions :
                     /\ v.id = e.target_id /\ v.uri = call.uri
                     /\ v.content_hash \in call.hash_before

\* a same-hash read made from a conversation other than the version's
C10_Witness ==
    \E i \in DOMAIN callLog :
        /\ SameHashRead(callLog[i])
        /\ \E e \in callLog[i].new_tool_use, v \in resourceVersions :
              v.id = e.target_id /\ v.conversation_id # callLog[i].conversation_id

(***************************************************************************)
(* C11  Changed content: a tool call whose result hash differs from the    *)
(* existing Resource's current_content_hash creates exactly one            *)
(* ResourceVersion (of that URI and hash), one VersionOfEdge from it to    *)
(* the Resource and one ToolUseEdge from the AgentText to it; it creates   *)
(* no Resource, the Resource keeps its id, and its current_content_hash    *)
(* becomes the new hash.                                                   *)
(***************************************************************************)
ChangedHashRead(call) ==
    /\ call.uri # NoUri
    /\ call.content # {}
    /\ call.hash_before # {}
    /\ call.hash_before # { compute_content_hash(c) : c \in call.content }

C11_ChangedHashRead ==
    \A i \in DOMAIN callLog :
        LET call == callLog[i]
            new_hash == { compute_content_hash(c) : c \in call.content }
        IN ChangedHashRead(call) =>
            /\ { r.id : r \in call.resources_after } = { r.id : r \in call.resources_before }
            /\ \A r \in call.resources_after :
                 IF r.uri = call.uri
                 THEN /\ r.current_content_hash \in new_hash
                      /\ \E b \in call.resources_before :
                            b.id = r.id /\ b.uri = r.uri /\ b.created_at = r.created_at
                 ELSE r \in call.resources_before
            /\ Cardinality(call.new_versions) = 1
            /\ Cardinality(call.new_version_of) = 1
            /\ Cardinality(call.new_tool_use) = 1
            /\ \A v \in call.new_versions :
                 /\ v.uri = call.uri /\ v.content_hash \in new_hash
                 /\ \A e \in call.new_version_of :
                      /\ e.version_id = v.id
                      /\ \E r \in call.resources_before :
                            r.id = e.resource_id /\ r.uri = call.uri
                 /\ \A e \in call.new_tool_use :
                      e.source_id = call.agent_id /\ e.target_id = v.id

\* a changed-content read made from a conversation other than the one that
\* created the Resource
C11_Witness ==
    \E i \in DOMAIN callLog :
        /\ ChangedHashRead(callLog[i])
        /\ \E r \in callLog[i].resources_before :
              r.uri = callLog[i].uri /\ r.conversation_id # callLog[i].conversation_id
        /\ Cardinality(callLog[i].new_versions) = 1

(***************************************************************************)
(* C12  Embedding parity: the node_ids of the vector rows are exactly the  *)
(* ids of the UserTexts of the graph, each UserText has exactly one row    *)
(* (carrying its text and conversation), and no row belongs to an          *)
(* AgentText, a Resource or a ResourceVersion.                             *)
(***************************************************************************)
C12_EmbeddingParity ==
    /\ { v.node_id : v \in vectors } = { u.id : u \in userTexts }
    /\ \A u \in userTexts :
         LET rows == { v \in vectors : v.node_id = u.id }
         IN /\ Cardinality(rows) = 1
            /\ \A v \in rows : v.text = u.text /\ v.conversation_id = u.conversation_id
    /\ \A v \in vectors :
         v.node_id \notin { n.id : n \in agentTexts } \cup { n.id : n \in resources }
                            \cup { n.id : n \in resourceVersions }

\* UserTexts of both conversations beside an AgentText, a Resource and its
\* ResourceVersion
C12_Witness ==
    /\ \E u1, u2 \in userTexts : u1.conversation_id # u2.conversation_id
    /\ agentTexts # {} /\ resources # {} /\ resourceVersions # {}
    /\ Cardinality(vectors) = 2

(***************************************************************************)
(* C14  Turn assignment: a UserText is stored with turn_index one above    *)
(* the largest turn_index its conversation held before it (0 when it is    *)
(* the first node); an AgentText is stored with the largest turn_index its *)
(* conversation held before it (0 when it is the first node), so it never  *)
(* raises the max turn of a non-empty conversation.                        *)
(***************************************************************************)
EarlierTurns(n) ==
    { m.turn_index : m \in { x \in ConvNodes(n.conversation_id) : x.created_at < n.created_at } }

C14_TurnAssignment ==
    \A n \in AllMessageNodes :
        LET before == EarlierTurns(n)
        IN IF n.label = "UserText"
           THEN n.turn_index = (IF before = {} THEN 0 ELSE Max(before) + 1)
           ELSE n.turn_index = (IF before = {} THEN 0 ELSE Max(before))

\* two assistant messages answering the first user message join turn 0, and
\* the second user message opens turn 1
C14_Witness ==
    \E u0, u1 \in userTexts, a0, a1 \in agentTexts :
        /\ {u0, u1, a0, a1} \subseteq ConvNodes("cA")
        /\ u0.created_at < a0.created_at /\ a0.created_at < a1.created_at
        /\ a1.created_at < u1.created_at
        /\ u0.turn_index = 0 /\ a0.turn_index = 0 /\ a1.turn_index = 0
        /\ u1.turn_index = 1

(***************************************************************************)
(* C15  Placement of tool messages in a trace: an import_trace leaves the  *)
(* same Resources, ResourceVersions and ToolUseEdges as the import of the  *)
(* same list with a tool message moved before or after the assistant       *)
(* message that references it.                                             *)
(***************************************************************************)
C15_ToolPlacement ==
    twin.moved =>
        /\ twin.resources = resources
        /\ twin.resourceVersions = resourceVersions
        /\ twin.tool_use = tool_use

(***************************************************************************)
(* C19  Tool causality: every ToolUseEdge starts at an AgentText and ends  *)
(* at a ResourceVersion, and its tool_name is the name of a tool call      *)
(* recorded in that AgentText's tool_uses, in upper case with spaces       *)
(* replaced by underscores.                                                *)
(***************************************************************************)
\* the edge name expected for each tool name of the input alphabets
ExpectedToolName(name) ==
    CASE name = "read_file" -> "READ_FILE"
      [] name = "fetch url" -> "FETCH_URL"
      [] name = "bash" -> "BASH"
      [] OTHER -> "?"

UnresolvedCall(call) == call.uri = NoUri \/ call.content = {}

C20_UnresolvedCall ==
    \A i \in DOMAIN callLog :
        LET call == callLog[i]
        IN UnresolvedCall(call) =>
            /\ call.resources_after = call.resources_before
            /\ call.new_versions = {}
            /\ call.new_version_of = {}
            /\ call.new_tool_use = {}
            /\ \E a \in agentTexts :
                  /\ a.id = call.agent_id
                  /\ \E k \in DOMAIN a.tool_uses : a.tool_uses[k] = call.tool_call

\* one assistant message with a call that names no resource although a
\* result is recorded for its id, and a call that reads an existing
\* Resource's URI but has no recorded result
C20_Witness ==
    \E i, j \in DOMAIN callLog :
        /\ callLog[i].uri = NoUri /\ callLog[i].content # {}
        /\ callLog[j].uri # NoUri /\ callLog[j].content = {}
        /\ callLog[j].hash_before # {}

(***************************************************************************)
(* C13  Write order: in every reachable state, also while calls are in     *)
(* flight and after calls that failed or were cancelled at a suspension    *)
(* point, every vector row's node_id is the id of a UserText present in    *)
(* the graph.  (A UserText without a vector row is possible.)              *)
(***************************************************************************)
C13_VectorAfterNode ==
    \A v \in vectors : v.node_id \in { u.id : u \in userTexts }

\* no call is in flight; one UserText was left without its vector row by a
\* call that ended between the two writes, another UserText has its row
C13_Witness ==
    /\ \A j \in Slots : tasks[j].pc = "idle"
    /\ \E u1, u2 \in userTexts :
          /\ u1.id \notin { v.node_id : v \in vectors }
          /\ u2.id \in { v.node_id : v \in vectors }

(***************************************************************************)
(* C16  Independence of conversations: the content hashed for each tool    *)
(* call of a conversation is the content the calls of that conversation    *)
(* alone would have recorded for its tool_call_id (and none when they      *)
(* would have recorded none), however calls of other conversations are     *)
(* interleaved.  (Message nodes, turn indices and MessageEdges are read    *)
(* and written by conversation_id only.)  The scratch map is one map per   *)
(* open instance, so a tool message or an import_trace of another          *)
(* conversation replaces or clears the entry.                              *)
(***************************************************************************)
C16_ConversationsIndependent ==
    \A i \in DOMAIN callLog : callLog[i].content = callLog[i].alone

(***************************************************************************)
(* C17  Isolation of the scratch map: a tool call is never hashed with a   *)
(* tool result that was recorded for another conversation or by another    *)
(* import_trace invocation than the one processing the call.               *)
(***************************************************************************)
C17_ScratchIsolated ==
    \A i \in DOMAIN callLog :
        LET call == callLog[i]
        IN call.content # {} =>
            \A o \in call.origin :
                /\ o.conversation_id = call.conversation_id
                /\ o.kind = "import_trace" =>
                        (call.kind = "import_trace" /\ o.slot = call.slot)

(***************************************************************************)
(* C18  Tool result before the assistant message: when add_message         *)
(* processes a tool call whose tool_call_id had been supplied by an        *)
(* add_message of a tool message before the assistant message was added,   *)
(* the call resolves to the content most recently supplied that way,       *)
(* whatever calls happened in between.                                     *)
(***************************************************************************)
C18_PostedResultResolves ==
    \A i \in DOMAIN callLog :
        LET call == callLog[i]
        IN (call.kind = "add_message" /\ call.seen # {}) =>
                call.content = call.posted

(***************************************************************************)
(* C21  Frame of tool and system messages: an add_message of a tool        *)
(* message changes nothing but the scratch map entry of its tool_call_id,  *)
(* an add_message of a system message (or of a tool message without a      *)
(* tool_call_id) changes nothing at all; neither creates or modifies a     *)
(* graph node, an edge or a vector row, and both return an empty map.      *)
(***************************************************************************)
C21_ToolSystemFrame ==
    [][ (reply'.call = "add_message" /\ reply'.message.role \in {"tool", "system"}) =>
            /\ UNCHANGED <<userTexts, agentTexts, resourceVersions, resources,
                           message, version_of, tool_use, vectors,
                           last_accessed_at, last_accessed>>
            /\ reply'.created = <<>>
            /\ tool_results' =
                 IF reply'.message.role = "tool" /\ reply'.message.tool_call_id # NoId
                 THEN Put(tool_results, reply'.message.tool_call_id,
                          reply'.message.content)
                 ELSE tool_results ]_vars

\* a tool message was added to a graph that already holds nodes, edges and
\* a vector row, and its result is in the scratch map
C21_Witness ==
    /\ reply.call = "add_message" /\ reply.message.role = "tool"
    /\ reply.message.tool_call_id \in DOMAIN tool_results
    /\ userTexts # {} /\ agentTexts # {} /\ message # {} /\ vectors # {}
    /\ resources # {}

(***************************************************************************)
(* C22  Trajectory up to the follow-up: for a UserText u that has a later  *)
(* UserText in its conversation, get_trajectory(u) with the default depth  *)
(* returns, in created_at order, u, the AgentTexts created between u and   *)
(* the next UserText of the conversation, and that UserText last.          *)
(***************************************************************************)
\* the UserTexts of the conversation of u created after u
LaterUsers(u) ==
    { x \in userTexts : x.conversation_id = u.conversation_id
                        /\ x.created_at > u.created_at }

\* u, what the conversation created up to its next UserText, and that one
TurnUpToFollowUp(u) ==
    LET next == CHOOSE x \in LaterUsers(u) :
                    \A o \in LaterUsers(u) : x.created_at <= o.created_at
    IN OrderByCreatedAt({ n \in ConvNodes(u.conversation_id) :
                            /\ u.created_at <= n.created_at
                            /\ n.created_at <= next.created_at })

C22_TrajectoryToFollowUp ==
    (reply.call = "get_trajectory" /\ reply.max_depth = 100) =>
        \A u \in userTexts :
            (u.id = reply.node_id /\ LaterUsers(u) # {}) =>
                [i \in DOMAIN reply.steps |-> reply.steps[i].node_id]
                    = [i \in DOMAIN TurnUpToFollowUp(u) |-> TurnUpToFollowUp(u)[i].id]

(***************************************************************************)
(* C23  Conversations of a resource: get_conversations_for_resource(uri)   *)
(* returns references of conversations in which an AgentText has a         *)
(* ToolUseEdge to a ResourceVersion of uri, the excluded conversation left *)
(* out: never another conversation, and as many of them as the limit       *)
(* allows.                                                                 *)
(***************************************************************************)
\* conversations with a ToolUseEdge from an AgentText to a version of uri
AccessedBy(uri) ==
    { a.conversation_id :
        a \in { x \in agentTexts :
                  \E r \in tool_use, v \in resourceVersions :
                      r.source_id = x.id /\ r.target_id = v.id /\ v.uri = uri } }

C23_ResourceConversations ==
    reply.call = "get_conversations_for_resource" =>
        LET accessed == AccessedBy(reply.uri) \ {reply.exclude_conversation_id}
            returned == { reply.references[i].conversation_id :
                            i \in DOMAIN reply.references }
        IN /\ returned \subseteq accessed
           /\ Cardinality(returned) = Min(reply.limit, Cardinality(accessed))

\* C24: search with exclude_conversation_id = cX returns no row whose
\* conversation_id is cX, whatever the store holds and whatever the query
\* ranks first.
C24_ExcludesConversation ==
    (reply.call = "search" /\ reply.exclude_conversation_id # NoExclude) =>
        \A i \in DOMAIN reply.results :
            reply.results[i].conversation_id # reply.exclude_conversation_id

\* the same for an id that is not the empty string
C24_ExcludesNamedConversation ==
    (reply.call = "search" /\ Truthy(reply.exclude_conversation_id)) =>
        \A i \in DOMAIN reply.results :
            reply.results[i].conversation_id # reply.exclude_conversation_id

\* a search that excludes a conversation with rows in the table and
\* returns rows of another
C24_NamedExcluded ==
    /\ reply.call = "search" /\ Truthy(reply.exclude_conversation_id)
    /\ \E v \in vectors : v.conversation_id = reply.exclude_conversation_id
    /\ reply.results # <<>>

\* the index of the first row of a conversation among the rows fetched
FirstAppearance(rows, conversation_id) ==
    CHOOSE i \in DOMAIN rows :
        /\ rows[i].conversation_id = conversation_id
        /\ \A j \in 1..(i - 1) : rows[j].conversation_id # conversation_id

\* C25: with unique_conversations set, search returns at most limit
\* results, of pairwise distinct conversations, each the highest-scored row
\* of its conversation among the rows fetched, in the order in which the
\* conversations first appear among them.
C25_UniqueConversations ==
    (reply.call = "search" /\ reply.unique_conversations /\ ~reply.error) =>
        LET rows == reply.fetched
            results == reply.results
            convs == { rows[j].conversation_id : j \in DOMAIN rows }
        IN /\ Len(results) = Min(reply.limit, Cardinality(convs))
           /\ \A i, k \in DOMAIN results :
                 i # k => results[i].conversation_id # results[k].conversation_id
           /\ \A i \in DOMAIN results :
                 /\ \E j \in DOMAIN rows : rows[j] = results[i]
                 /\ \A j \in DOMAIN rows :
                       rows[j].conversation_id = results[i].conversation_id
                           => rows[j].score <= results[i].score
           /\ \A i, k \in DOMAIN results :
                 i < k => FirstAppearance(rows, results[i].conversation_id)
                            < FirstAppearance(rows, results[k].conversation_id)

\* a conversation whose best row was fetched after a weaker row of it,
\* with a row of another conversation between the two, and two results
C25_Witness ==
    /\ reply.call = "search" /\ reply.unique_conversations /\ ~reply.error
    /\ Len(reply.fetched) = 3 /\ Len(reply.results) = 2
    /\ reply.fetched[1].conversation_id = reply.fetched[3].conversation_id
    /\ reply.fetched[1].conversation_id # reply.fetched[2].conversation_id
    /\ reply.fetched[1].score < reply.fetched[3].score
    /\ reply.results[1] = reply.fetched[3]

\* the ids of the nodes that the last retrieval call returned
ReturnedIds ==
    IF reply.call = "search"
    THEN { reply.results[i].node_id : i \in DOMAIN reply.results }
    ELSE IF reply.call = "get_context"
    THEN { n.id : n \in reply.result.user_text \cup reply.result.agent_text }
    ELSE IF reply.call = "get_trajectory"
    THEN { reply.steps[i].node_id : i \in DOMAIN reply.steps }
    ELSE IF reply.call = "get_conversations_for_resource"
    THEN { reply.references[i].user_text_id : i \in DOMAIN reply.references }
    ELSE {}

\* C26: after any retrieval call that returned node ids, the ids carry a
\* last access in the graph store and, where the id has a row there, in
\* the vector store.
C26_RetrievalTouches ==
    \A id \in ReturnedIds :
        /\ id \in DOMAIN last_accessed_at
        /\ (\E v \in vectors : v.node_id = id) => id \in DOMAIN last_accessed

\* the same for search alone
C26_SearchTouches ==
    reply.call = "search" =>
        \A id \in ReturnedIds :
            /\ id \in DOMAIN last_accessed_at /\ last_accessed_at[id] = touches
            /\ id \in DOMAIN last_accessed /\ last_accessed[id] = touches

\* a search that returned rows
C26_SearchReturned == reply.call = "search" /\ reply.results # <<>>

\* C27: when the touch of last_accessed_at fails on either store, search
\* does not fail and returns the results it found.
C27_TouchBestEffort ==
    (reply.call = "search" /\ reply.failed # "none") =>
        ~reply.error /\ reply.results = reply.found

\* the ids of the nodes of the graph
NodeIds ==
    { n.id : n \in userTexts \cup agentTexts \cup resourceVersions \cup resources }

\* C28: retrieval with an id that no node carries, or a URI that no
\* Resource carries, succeeds with an empty result: a context with every
\* field absent, no trajectory step, no conversation reference.
C28_UnknownGivesEmpty ==
    /\ (reply.call = "get_context" /\ reply.node_id \notin NodeIds) =>
            /\ ~reply.result.error
            /\ reply.result.user_text = {} /\ reply.result.agent_text = {}
            /\ reply.result.tool_uses = {}
    /\ (reply.call = "get_trajectory" /\ reply.node_id \notin NodeIds) =>
            reply.steps = <<>>
    /\ (reply.call = "get_conversations_for_resource"
            /\ ~ \E r \in resources : r.uri = reply.uri) =>
            reply.references = <<>>

\* get_context of an unknown id over a graph that holds a whole turn
C28_Witness ==
    /\ reply.call = "get_context" /\ reply.node_id \notin NodeIds
    /\ userTexts # {} /\ agentTexts # {} /\ tool_use # {}

\* C29: a create_node(Resource) whose MATCH finds a Resource of the URI
\* creates nothing, returns that Resource, with the id and
\* current_content_hash it is stored with, and leaves the Resource rows as
\* they were.
C29_CreateExistingResource ==
    (reply.call = "create_node" /\ reply.existing # {}) =>
        /\ resources = reply.before
        /\ Cardinality(reply.returned) = 1
        /\ reply.returned \subseteq reply.existing
        /\ reply.returned \subseteq { r \in resources : r.uri = reply.uri }

\* the call returned a Resource stored with another hash than the one
\* the call carried
C29_Witness ==
    /\ reply.call = "create_node" /\ reply.existing # {}
    /\ \E r \in reply.returned : r.current_content_hash # reply.content_hash

\* C30: create_node(Resource) calls that run concurrently leave one
\* Resource for a URI.
C30_UpsertAtomic ==
    (\A j \in Slots : tasks[j].pc = "idle") =>
        \A uri \in UpsertUris :
            Cardinality({ r \in resources : r.uri = uri }) <= 1

\* the rows of the table that the filter on exclude_conversation_id keeps
NotExcluded(exclude_conversation_id) ==
    { v \in vectors : Truthy(exclude_conversation_id)
                          => v.conversation_id # exclude_conversation_id }

\* the limit that search passes to the vector store
FetchLimit == IF reply.unique_conversations THEN reply.limit * 3 ELSE reply.limit

\* C40: the vector search with limit k returns min(k, E) rows, E the
\* number of stored rows that exclude_conversation_id does not remove.
C40_SearchFillsLimit ==
    reply.call = "search" =>
        Len(reply.fetched)
            = Min(FetchLimit, Cardinality(NotExcluded(reply.exclude_conversation_id)))

\* the same when no conversation is excluded
C40_FillsLimitNoExclude ==
    (reply.call = "search" /\ ~Truthy(reply.exclude_conversation_id)) =>
        Len(reply.fetched) = Min(FetchLimit, Cardinality(vectors))

\* a search without exclusion over more rows than the limit
C40_MoreRowsThanLimit ==
    /\ reply.call = "search" /\ ~Truthy(reply.exclude_conversation_id)
    /\ Cardinality(vectors) > FetchLimit

\* C32: canonicalizing a canonical URI again, with the same root, gives
\* the same URI.
C32_CanonicalizeIdempotent ==
    reply.call = "canonicalize" =>
        canonicalize(reply.result, reply.root, reply.cwd) = reply.result

\* the same in global mode, where no root is set
C32_IdempotentGlobal ==
    (reply.call = "canonicalize" /\ reply.root = NoRoot) =>
        canonicalize(reply.result, reply.root, reply.cwd) = reply.result

\* a file URI that canonicalization rewrote, in global mode
C32_GlobalRewritten ==
    /\ reply.call = "canonicalize" /\ reply.root = NoRoot
    /\ urlparse(reply.uri).scheme = "file:" /\ reply.result # reply.uri

\* C33: with vector_weight 0 the rows come back in the order of the text
\* match alone, with vector_weight 1 in the order of the vector distance
\* alone.
C33_WeightOrdersResults ==
    reply.call = "vector_search" =>
        LET returned == [i \in DOMAIN reply.results |-> reply.results[i].node_id]
        IN /\ reply.vector_weight = 0 => returned = Take(reply.lexical, reply.limit)
           /\ reply.vector_weight = 10 => returned = Take(reply.dense, reply.limit)

NsLookups ==
    { "get_resource_by_uri", "get_node_context", "get_resource_conversations",
      "get_trajectory_nodes" }

\* C34: a lookup or retrieval call of a store with a namespace returns
\* only nodes created under that namespace, and ingestion attaches a node
\* only to nodes of its own namespace.
C34_NamespaceIsolated ==
    /\ reply.call \in NsLookups =>
            \A id \in reply.returned : namespace[id] = reply.namespace
    /\ \A e \in version_of : namespace[e.version_id] = namespace[e.resource_id]
    /\ \A e \in tool_use : namespace[e.source_id] = namespace[e.target_id]

\* C35: import_trace of a trajectory gives the graph of the original
\* ingest up to ids and timestamps.
C35_RoundTrip ==
    reply.call = "round_trip" => reply.imported = Shape(Store)

\* whatever list is written from the steps, a graph with a tool-use edge
\* does not come back
C35_ToolUseNeverRestored ==
    (reply.call = "round_trip" /\ tool_use # {}) => reply.imported # Shape(Store)

\* a graph without tool calls comes back from the list without guesses
C35_PlainTurnRestored ==
    (/\ reply.call = "round_trip"
     /\ \A a \in agentTexts : a.tool_uses = <<>>
     /\ \A i \in DOMAIN reply.messages : reply.messages[i].role # "tool")
        => reply.imported = Shape(Store)

\* a turn of a user message and a reply imported again
C35_PlainTurn ==
    /\ reply.call = "round_trip" /\ agentTexts # {} /\ message # {}
    /\ \A a \in agentTexts : a.tool_uses = <<>>

\* C36: for every tool call whose URI is extractable and whose result is
\* recorded, add_message returns and has created exactly one tool-use edge
\* from the new AgentText, whatever the name of the tool.
C36_ToolNameAccepted ==
    (reply.call = "add_message_outcome" /\ reply.message.role = "assistant") =>
        /\ ~reply.raised
        /\ Cardinality(reply.tool_use) = Cardinality(reply.resolvable)

\* C36: the same for tool calls whose name does not upper-case to MESSAGE
C36_OtherNamesAccepted ==
    (/\ reply.call = "add_message_outcome" /\ reply.message.role = "assistant"
     /\ \A i \in DOMAIN reply.message.tool_calls :
            ReplaceSpaces(Upper(reply.message.tool_calls[i].name)) # "MESSAGE") =>
        /\ ~reply.raised
        /\ Cardinality(reply.tool_use) = Cardinality(reply.resolvable)

\* C36: a resolvable call to the tool named "message" always raises
C36_MessageToolRaises ==
    (/\ reply.call = "add_message_outcome" /\ reply.resolvable # {}
     /\ reply.message.tool_calls[1].name = "message") => reply.raised

\* C36: a read_file call with a recorded result was added
C36_ReadResolved ==
    /\ reply.call = "add_message_outcome" /\ reply.resolvable # {}
    /\ reply.message.tool_calls[1].name = "read_file"

\* C39: every tool-use edge created for a tool call targets a ResourceVersion
\* whose uri is the URI extracted from the call and whose content_hash is
\* the SHA-256 of the result recorded for the call's tool_call_id.
C39_EdgeTargetsReadVersion ==
    \A i \in DOMAIN callLog :
        \A e \in callLog[i].new_tool_use :
            /\ callLog[i].content # {}
            /\ \E v \in resourceVersions :
                 /\ v.id = e.target_id
                 /\ v.uri = extract(callLog[i].tool_call.name, callLog[i].tool_call.args)
                 /\ \A c \in callLog[i].content :
                        v.content_hash = compute_content_hash(c)

\* C39: an edge was created while the URI had a version of another content
C39_EdgeAmongVersions ==
    \E i \in DOMAIN callLog :
        /\ callLog[i].new_tool_use # {}
        /\ \E v \in resourceVersions :
              /\ v.uri = callLog[i].uri
              /\ \A c \in callLog[i].content : v.content_hash # compute_content_hash(c)

\* C31: no step of ingestion or retrieval modifies or deletes a node or an
\* edge: every UserText, AgentText, ResourceVersion and edge of the state
\* before is in the state after as it was, and every Resource is there
\* with at most its current_content_hash changed (last_accessed_at is kept
\* apart from the rows).
C31_NodesAndEdgesImmutable ==
    [][ /\ userTexts \subseteq userTexts'
        /\ agentTexts \subseteq agentTexts'
        /\ resourceVersions \subseteq resourceVersions'
        /\ message \subseteq message'
        /\ version_of \subseteq version_of'
        /\ tool_use \subseteq tool_use'
        /\ \A r \in resources :
              \E q \in resources' :
                  q = [r EXCEPT !.current_content_hash = q.current_content_hash]
        /\ \A q \in resources' :
              Cardinality({ r \in resources : r.id = q.id }) <= 1 ]_vars

\* C31: the hash of a Resource was updated away from its first version's
\* and a search has touched nodes of the graph
C31_UpdatedAndTouched ==
    /\ touches > 0
    /\ \E r \in resources, v \in resourceVersions, e \in version_of :
          /\ e.version_id = v.id /\ e.resource_id = r.id
          /\ v.content_hash # r.current_content_hash
    /\ tool_use # {} /\ message # {}

\* C37: when a _process_tool_call returns, the graph holds a ResourceVersion
\* of the URI and hash it read, a VERSION_OF edge from that version to the
\* Resource of the URI, and a tool-use edge from its AgentText to the
\* version, also when an earlier call had failed partway.
C37_ReadLeavesVersionAndEdges ==
    reply.call = "process_tool_call" =>
        \E v \in resourceVersions :
            /\ v.uri = reply.uri /\ v.content_hash = reply.content_hash
            /\ \E e \in version_of, r \in resources :
                  e.version_id = v.id /\ e.resource_id = r.id /\ r.uri = reply.uri
            /\ \E e \in tool_use :
                  e.source_id = reply.agent_id /\ e.target_id = v.id

\* C38: once the interleaved add_message calls of the two conversations
\* have returned, the current_content_hash of every Resource is the
\* content_hash of the most recently created ResourceVersion of its URI.
C38_HashOfLatestAfterInterleaving ==
    (\A j \in Slots : tasks[j].pc = "idle") =>
        \A r \in resources :
            \A v \in Latest({ x \in resourceVersions : x.uri = r.uri }) :
                r.current_content_hash = v.content_hash

====
